---- MODULE Spec2Model ----
(***************************************************************************)
(* Model of the life-planner backend engines:                              *)
(*   - FormulaEngine (backend/app/engines/formula_engine.py): the formula  *)
(*     validator (an allow-list walk over the Python AST) and the          *)
(*     evaluator (Python eval() under restricted globals);                 *)
(*   - ProjectionEngine (backend/app/engines/projection_engine.py): the    *)
(*     month-by-month projection loop.                                     *)
(*                                                                         *)
(* A formula is represented by what ast.parse makes of it: its length in   *)
(* characters and either a syntax tree or a syntax error.  Python values   *)
(* are tagged records; floats are carried as exact rationals n/d.          *)
(***************************************************************************)
EXTENDS Integers, Sequences, FiniteSets, TLC

VARIABLES
    formula,      \* the formula string handed to the engine: [len, ast]
    variables,    \* the caller's variable mapping (name -> value)
    pc,           \* position inside validate_formula / evaluate_formula
    outcome,      \* what the running call returned or raised
    called,       \* callables invoked so far by eval()
    lookups,      \* names looked up so far by eval()
    raw,          \* eval()'s raw result, before the Decimal conversion
    scenario,     \* the Scenario row a projection run works on
    attached,     \* its ScenarioComponent rows, in query order
    ppc,          \* position inside calculate_scenario_projection
    month_num,    \* loop variable of the month loop
    current_date, \* running calendar date of the month loop
    projections,  \* the list of MonthlyProjectionCreate built so far
    raised,       \* the exception a projection run ended with, if any
    store,        \* the committed rows of the monthly_projections table
    req,          \* the calculate requests: position, locals, session, response
    seen,         \* what the last get_scenario_projections request returned
    components,   \* the formulas of the financial_components table, by id
    partnerships, \* the rows of the partnerships table
    response      \* the request answered last and the answer it got

fvars == <<formula, variables, pc, outcome, called, lookups, raw>>
pvars == <<scenario, attached, ppc, month_num, current_date, projections, raised>>
rvars == <<store, req, seen>>
avars == <<components, partnerships, response>>
vars == <<formula, variables, pc, outcome, called, lookups, raw,
          scenario, attached, ppc, month_num, current_date, projections, raised,
          store, req, seen, components, partnerships, response>>

(***************************************************************************)
(* Bounds of the model.                                                    *)
(***************************************************************************)
\* Length of a formula written without padding (all trees of the model are
\* shorter); longer strings are the same text padded with blanks.
ShortLen == 40
\* Nesting depth of the formulas explored.
MaxDepth == 2
\* Horizons explored by the projection runs (the schema allows 1..120).
MaxMonths == 3
\* Number of ScenarioComponent rows attached to a scenario.
MaxAttached == 2

(***************************************************************************)
(* Settings (core/config.py).                                              *)
(***************************************************************************)
MAX_FORMULA_LENGTH == 1000

(***************************************************************************)
(* Python strings are sequences of code points.                            *)
(***************************************************************************)
S_ab == <<97, 98>>
\* "__builtins__" and "exit"
S_builtins == <<95, 95, 98, 117, 105, 108, 116, 105, 110, 115, 95, 95>>
S_exit == <<101, 120, 105, 116>>

(***************************************************************************)
(* Syntax trees, as ast.parse(formula, mode='eval') builds them.           *)
(***************************************************************************)
Name(id) == [t |-> "Name", id |-> id]
Num(n) == [t |-> "Constant", kind |-> "num", v |-> n]
Str(s) == [t |-> "Constant", kind |-> "str", v |-> s]
BinOp(op, l, r) == [t |-> "BinOp", op |-> op, left |-> l, right |-> r]
\* a run of n nested applications of one unary operator ("-" * n before x)
UnaryChain(op, n, x) == [t |-> "UnaryOp", op |-> op, operand |-> x, times |-> n]
UnaryOp(op, x) == UnaryChain(op, 1, x)
Keyword(arg, value) == [arg |-> arg, value |-> value]
Call(func, args, keywords) ==
    [t |-> "Call", func |-> func, args |-> args, keywords |-> keywords]
Compare(l, op, comparators) ==
    [t |-> "Compare", left |-> l, op |-> op, comparators |-> comparators]
IfExp(test, body, orelse) ==
    [t |-> "IfExp", test |-> test, body |-> body, orelse |-> orelse]
BoolOp(op, l, r) == [t |-> "BoolOp", op |-> op, values |-> <<l, r>>]
Attribute(value, attr) == [t |-> "Attribute", value |-> value, attr |-> attr]
Subscript(value, slice) == [t |-> "Subscript", value |-> value, slice |-> slice]
ListNode(elts) == [t |-> "List", elts |-> elts]
ListComp(elt, target, iter) ==
    [t |-> "ListComp", elt |-> elt, target |-> target, iter |-> iter]
Lambda(param, body) == [t |-> "Lambda", param |-> param, body |-> body]
NamedExpr(target, value) == [t |-> "NamedExpr", target |-> target, value |-> value]
\* ast.parse raising SyntaxError instead of returning a tree
SyntaxErrorTree == [t |-> "SyntaxError"]

(***************************************************************************)
(* FormulaEngine.__init__: the function registry and the constants.        *)
(***************************************************************************)
MathFunctionNames ==
    {"abs", "round", "min", "max", "sum", "pow", "sqrt", "ceil", "floor",
     "log", "log10", "exp", "sin", "cos", "tan"}
FinancialFunctionNames == {"pmt", "fv", "pv", "rate", "nper"}
RegistryNames == MathFunctionNames \cup FinancialFunctionNames
FnValue(name) == [k |-> "fn", f |-> name]
allowed_functions == [n \in RegistryNames |-> FnValue(n)]

FloatV(n, d) == [k |-> "num", n |-> n, d |-> d, fl |-> TRUE]
\* math.pi and math.e are binary floats; the model carries two-decimal
\* approximations, no property below depends on their digits.
allowed_constants ==
    [n \in {"pi", "e"} |-> IF n = "pi" THEN FloatV(157, 50) ELSE FloatV(271, 100)]

(***************************************************************************)
(* FormulaEngine._check_node_safety: TRUE when the walk returns, FALSE     *)
(* when it raises.  The walk is recursive, one interpreter frame per level *)
(* of the tree: depth is the frame the call runs in, and a call that would *)
(* run in a frame beyond the interpreter's recursion limit raises          *)
(* RecursionError instead.                                                 *)
(***************************************************************************)
SafeBinOps == {"Add", "Sub", "Mult", "Div", "Mod", "Pow"}
SafeUnaryOps == {"UAdd", "USub"}

\* sys.getrecursionlimit() of the interpreter the engine runs in
RecursionLimit == 1000
\* frames already on the stack when the engine is called: at least the
\* caller's own
CallerFrames == 1

RECURSIVE check_node_safety(_, _)
check_node_safety(node, depth) ==
    IF depth > RecursionLimit THEN FALSE
    ELSE
    CASE node.t = "Name" -> TRUE
      [] node.t = "Constant" -> TRUE
      [] node.t = "BinOp" ->
            /\ node.op \in SafeBinOps
            /\ check_node_safety(node.left, depth + 1)
            /\ check_node_safety(node.right, depth + 1)
      [] node.t = "UnaryOp" ->
            /\ node.op \in SafeUnaryOps
            /\ check_node_safety(node.operand, depth + node.times)
      [] node.t = "Call" ->
            /\ node.func.t = "Name"
            /\ node.func.id \in DOMAIN allowed_functions
            /\ \A i \in 1..Len(node.args) : check_node_safety(node.args[i], depth + 1)
      [] node.t = "Compare" ->
            /\ check_node_safety(node.left, depth + 1)
            /\ \A i \in 1..Len(node.comparators) :
                  check_node_safety(node.comparators[i], depth + 1)
      [] node.t = "IfExp" ->
            /\ check_node_safety(node.test, depth + 1)
            /\ check_node_safety(node.body, depth + 1)
            /\ check_node_safety(node.orelse, depth + 1)
      [] OTHER -> FALSE

(***************************************************************************)
(* FormulaEngine.validate_formula: "ok" for return True, otherwise the     *)
(* exception it raises (every failure, a RecursionError of the walk        *)
(* included, is re-raised as FormulaSecurityError).                        *)
(***************************************************************************)
\* mutant: the length test off by one
TooLong_off_by_one(f) == f.len >= MAX_FORMULA_LENGTH

TooLong(f) == f.len > MAX_FORMULA_LENGTH

\* validate_formula called with the given number of frames below it: its
\* own frame is frames + 1, the walk starts in frame frames + 2
validate_in_frame(f, frames) ==
    IF TooLong(f) THEN "FormulaSecurityError"
    ELSE IF f.ast.t = "SyntaxError" THEN "FormulaSecurityError"
    ELSE IF check_node_safety(f.ast, frames + 2) THEN "ok"
    ELSE "FormulaSecurityError"

validate_formula(f) == validate_in_frame(f, CallerFrames)

(***************************************************************************)
(* Python values.  num: an int or a float (fl) of value n/d in lowest      *)
(* terms; bool; str (code points); fn: a registry callable; lambda; host:  *)
(* a bound method of a host type; dict: the empty __builtins__ mapping;    *)
(* date; list; obj: any other host object; exc: a raised exception.        *)
(***************************************************************************)
IntV(n) == [k |-> "num", n |-> n, d |-> 1, fl |-> FALSE]
BoolV(b) == [k |-> "bool", b |-> b]
StrV(s) == [k |-> "str", s |-> s]
LambdaV(param, body, env) ==
    [k |-> "lambda", param |-> param, body |-> body, env |-> env]
HostV(f, self) == [k |-> "host", f |-> f, self |-> self]
DictV == [k |-> "dict"]
DateV(y, m, d) == [k |-> "date", y |-> y, m |-> m, d |-> d]
ListV(items) == [k |-> "list", items |-> items]
ObjV(type) == [k |-> "obj", f |-> type]
Exc(name) == [k |-> "exc", f |-> name]
IsExc(v) == v.k = "exc"

Abs(n) == IF n < 0 THEN -n ELSE n

RECURSIVE GCD(_, _)
GCD(a, b) == IF b = 0 THEN a ELSE GCD(b, a % b)

\* the number n/d (d # 0) in lowest terms with a positive denominator
Rat(n, d, fl) ==
    LET g == GCD(Abs(n), Abs(d))
        sg == IF d < 0 THEN -1 ELSE 1
    IN [k |-> "num", n |-> sg * (n \div g), d |-> sg * (d \div g), fl |-> fl]

IsNumeric(v) == v.k \in {"num", "bool"}
\* bool is a subclass of int: True is 1, False is 0
AsNum(v) == IF v.k = "bool" THEN IntV(IF v.b THEN 1 ELSE 0) ELSE v
IsInt(v) == IsNumeric(v) /\ AsNum(v).d = 1 /\ ~AsNum(v).fl

RECURSIVE IntPow(_, _)
IntPow(b, e) == IF e = 0 THEN 1 ELSE b * IntPow(b, e - 1)

RECURSIVE Repeat(_, _)
Repeat(s, n) == IF n <= 0 THEN <<>> ELSE s \o Repeat(s, n - 1)

\* a < b for two numbers
NumLess(a, b) == a.n * b.d < b.n * a.d
NumEq(a, b) == a.n * b.d = b.n * a.d

\* lexicographic order of two strings
RECURSIVE StrLess(_, _)
StrLess(s, u) ==
    IF u = <<>> THEN FALSE
    ELSE IF s = <<>> THEN TRUE
    ELSE IF Head(s) # Head(u) THEN Head(s) < Head(u)
    ELSE StrLess(Tail(s), Tail(u))

(***************************************************************************)
(* The binary operators of eval() on two values.  Exponents in the model   *)
(* are integers.                                                           *)
(***************************************************************************)
NumBinary(op, a, b) ==
    LET fl == a.fl \/ b.fl IN
    CASE op = "Add" -> Rat(a.n * b.d + b.n * a.d, a.d * b.d, fl)
      [] op = "Sub" -> Rat(a.n * b.d - b.n * a.d, a.d * b.d, fl)
      [] op = "Mult" -> Rat(a.n * b.n, a.d * b.d, fl)
      [] op = "Div" ->
            IF b.n = 0 THEN Exc("ZeroDivisionError")
            ELSE Rat(a.n * b.d, a.d * b.n, TRUE)
      [] op = "FloorDiv" ->
            IF b.n = 0 THEN Exc("ZeroDivisionError")
            ELSE Rat((a.n * b.d) \div (a.d * b.n), 1, fl)
      [] op = "Mod" ->
            IF b.n = 0 THEN Exc("ZeroDivisionError")
            ELSE LET q == Rat(a.n * b.d, a.d * b.n, fl)
                     fq == q.n \div q.d
                 IN Rat(a.n * b.d - fq * b.n * a.d, a.d * b.d, fl)
      [] op = "Pow" /\ b.d = 1 ->
            IF b.n >= 0 THEN Rat(IntPow(a.n, b.n), IntPow(a.d, b.n), fl)
            ELSE IF a.n = 0 THEN Exc("ZeroDivisionError")
            ELSE Rat(IntPow(a.d, -b.n), IntPow(a.n, -b.n), TRUE)

BinaryOp(op, l, r) ==
    IF IsNumeric(l) /\ IsNumeric(r) THEN NumBinary(op, AsNum(l), AsNum(r))
    ELSE IF l.k = "str" /\ r.k = "str" /\ op = "Add" THEN StrV(l.s \o r.s)
    ELSE IF l.k = "str" /\ IsInt(r) /\ op = "Mult" THEN StrV(Repeat(l.s, AsNum(r).n))
    ELSE IF IsInt(l) /\ r.k = "str" /\ op = "Mult" THEN StrV(Repeat(r.s, AsNum(l).n))
    ELSE IF l.k = "date" /\ r.k = "date" /\ op = "Sub" THEN ObjV("timedelta")
    ELSE Exc("TypeError")

UnaryOpV(op, v) ==
    CASE op = "Not" -> BoolV(~(CASE v.k = "num" -> v.n # 0
                                 [] v.k = "bool" -> v.b
                                 [] v.k = "str" -> v.s # <<>>
                                 [] v.k = "list" -> v.items # <<>>
                                 [] v.k = "dict" -> FALSE
                                 [] OTHER -> TRUE))
      [] op = "USub" -> IF IsNumeric(v) THEN NumBinary("Sub", IntV(0), AsNum(v))
                        ELSE Exc("TypeError")
      [] op = "UAdd" -> IF IsNumeric(v) THEN AsNum(v) ELSE Exc("TypeError")

\* the operator applied n >= 1 times: the first application fixes the type,
\* each further pair of applications gives the same value back
UnaryOpTimes(op, n, v) ==
    IF IsExc(UnaryOpV(op, v)) \/ n % 2 = 1 THEN UnaryOpV(op, v)
    ELSE UnaryOpV(op, UnaryOpV(op, v))

Truthy(v) == UnaryOpV("Not", v) = BoolV(FALSE)

\* one comparison l <op> r: a bool, or TypeError for an unordered pair
CompareV(op, l, r) ==
    IF IsNumeric(l) /\ IsNumeric(r) THEN
        CASE op = "Gt" -> BoolV(NumLess(AsNum(r), AsNum(l)))
          [] op = "Lt" -> BoolV(NumLess(AsNum(l), AsNum(r)))
          [] op = "Eq" -> BoolV(NumEq(AsNum(l), AsNum(r)))
    ELSE IF l.k = "str" /\ r.k = "str" THEN
        CASE op = "Gt" -> BoolV(StrLess(r.s, l.s))
          [] op = "Lt" -> BoolV(StrLess(l.s, r.s))
          [] op = "Eq" -> BoolV(l.s = r.s)
    ELSE IF op = "Eq" THEN BoolV(l = r)
    ELSE Exc("TypeError")

(***************************************************************************)
(* Python dicts are functions; {**f, **g} lets g win.                      *)
(***************************************************************************)
Merge(f, g) == g @@ f
EmptyDict == [n \in {} |-> 0]

\* the result of evaluating something: its value (or the exception raised),
\* the callables invoked and the names looked up in the globals on the way
R(v, calls, reads) == [v |-> v, calls |-> calls, reads |-> reads]

\* what iterating over a value yields, or <<>> with ok = FALSE
IterItems(v) ==
    CASE v.k = "str" -> [ok |-> TRUE, items |-> [i \in 1..Len(v.s) |-> StrV(<<v.s[i]>>)]]
      [] v.k = "list" -> [ok |-> TRUE, items |-> v.items]
      [] OTHER -> [ok |-> FALSE, items |-> <<>>]

RECURSIVE JoinStr(_, _)
JoinStr(sep, items) ==
    IF items = <<>> THEN <<>>
    ELSE IF Len(items) = 1 THEN items[1].s
    ELSE items[1].s \o sep \o JoinStr(sep, Tail(items))

\* l <op> r where either side may already be a raised exception
P(op, l, r) == IF IsExc(l) THEN l ELSE IF IsExc(r) THEN r ELSE BinaryOp(op, l, r)
Neg(v) == IF IsExc(v) THEN v ELSE UnaryOpV("USub", v)

(***************************************************************************)
(* FormulaEngine._pmt(rate, nper, pv, fv=0, when=0)                        *)
(***************************************************************************)
pmt(rate, nper, pv, fv) ==
    IF CompareV("Eq", rate, IntV(0)) = BoolV(TRUE)
    THEN P("Div", Neg(P("Add", pv, fv)), nper)
    ELSE LET rate_per_period == P("Div", rate, IntV(12))
             growth == P("Pow", P("Add", IntV(1), rate_per_period), nper)
         IN P("Div",
              Neg(P("Add", P("Mult", pv, growth), fv)),
              P("Div", P("Sub", growth, IntV(1)), rate_per_period))

(***************************************************************************)
(* FormulaEngine._rate: the placeholder, 0.05 whatever the arguments.      *)
(***************************************************************************)
rate_stub == FloatV(1, 20)

(***************************************************************************)
(* eval(formula, safe_globals, {}): the tree walk of the Python            *)
(* interpreter over the constructs of the model.  G are the globals, L the *)
(* locals (empty at top level, the parameter inside a lambda).             *)
(***************************************************************************)
RECURSIVE Eval(_, _, _), EvalSeq(_, _, _), Invoke(_, _, _, _),
          KeySeq(_, _, _), Best(_, _, _, _),
          CompareChain(_, _, _, _, _), EvalEach(_, _, _, _, _)

\* evaluates nodes left to right and stops at the first exception
EvalSeq(nodes, G, L) ==
    IF nodes = <<>>
    THEN [vals |-> <<>>, exc |-> Exc("none"), calls |-> {}, reads |-> {}]
    ELSE LET h == Eval(Head(nodes), G, L) IN
         IF IsExc(h.v)
         THEN [vals |-> <<>>, exc |-> h.v, calls |-> h.calls, reads |-> h.reads]
         ELSE LET rest == EvalSeq(Tail(nodes), G, L) IN
              [vals |-> <<h.v>> \o rest.vals, exc |-> rest.exc,
               calls |-> h.calls \cup rest.calls,
               reads |-> h.reads \cup rest.reads]

\* key(item) for each item, in order
KeySeq(keyfn, items, G) ==
    IF items = <<>>
    THEN [vals |-> <<>>, exc |-> Exc("none"), calls |-> {}, reads |-> {}]
    ELSE LET h == Invoke(keyfn, <<Head(items)>>, <<>>, G) IN
         IF IsExc(h.v)
         THEN [vals |-> <<>>, exc |-> h.v, calls |-> h.calls, reads |-> h.reads]
         ELSE LET rest == KeySeq(keyfn, Tail(items), G) IN
              [vals |-> <<h.v>> \o rest.vals, exc |-> rest.exc,
               calls |-> h.calls \cup rest.calls,
               reads |-> h.reads \cup rest.reads]

\* index of the first largest (op = "Gt") or smallest (op = "Lt") key from
\* position i on, given the best so far; 0 when two keys are unordered
Best(op, keys, i, best) ==
    IF i > Len(keys) THEN best
    ELSE LET c == CompareV(op, keys[i], keys[best]) IN
         IF IsExc(c) THEN 0
         ELSE Best(op, keys, i + 1, IF c.b THEN i ELSE best)

\* the items max()/min() range over: the positional arguments, or the
\* elements of a single iterable argument
MaxMinItems(args) ==
    IF Len(args) = 1 THEN IterItems(args[1])
    ELSE [ok |-> Len(args) > 1, items |-> args]

\* the registry functions the formulas of the model call; keys are the
\* values max()/min() compare (key(item) for each item, or the items)
ApplyFn(name, args, kwargs, keys) ==
    CASE name = "abs" ->
            IF kwargs # <<>> \/ Len(args) # 1 \/ ~IsNumeric(args[1])
            THEN Exc("TypeError")
            ELSE LET x == AsNum(args[1]) IN Rat(Abs(x.n), x.d, x.fl)
      [] name \in {"max", "min"} ->
            LET it == MaxMinItems(args) IN
            IF ~it.ok \/ \E i \in 1..Len(kwargs) : kwargs[i].arg # "key"
            THEN Exc("TypeError")
            ELSE IF it.items = <<>> THEN Exc("ValueError")
            ELSE LET b == Best(IF name = "max" THEN "Gt" ELSE "Lt", keys, 2, 1)
                 IN IF b = 0 THEN Exc("TypeError") ELSE it.items[b]
      [] name = "pmt" ->
            IF kwargs # <<>> \/ Len(args) \notin 3..5
            THEN Exc("TypeError")
            ELSE pmt(args[1], args[2], args[3],
                     IF Len(args) >= 4 THEN args[4] ELSE IntV(0))
      [] name = "rate" ->
            IF kwargs # <<>> \/ Len(args) \notin 3..6
            THEN Exc("TypeError")
            ELSE rate_stub

\* calling a value: a registry function, a lambda, a bound host method, or
\* something that is not callable
Invoke(callee, args, kwargs, G) ==
    CASE callee.k = "fn" ->
            LET it == MaxMinItems(args) IN
            IF /\ callee.f \in {"max", "min"}
               /\ kwargs # <<>>
               /\ \A i \in 1..Len(kwargs) : kwargs[i].arg = "key"
               /\ it.ok
            THEN \* max()/min() call key(item) on every item first
                 LET ks == KeySeq(kwargs[1].v, it.items, G) IN
                 R(IF ks.exc # Exc("none") THEN ks.exc
                   ELSE ApplyFn(callee.f, args, kwargs, ks.vals),
                   {callee.f} \cup ks.calls, ks.reads)
            ELSE R(ApplyFn(callee.f, args, kwargs, it.items), {callee.f}, {})
      [] callee.k = "lambda" ->
            IF kwargs # <<>> \/ Len(args) # 1
            THEN R(Exc("TypeError"), {}, {})
            ELSE LET r == Eval(callee.body, G,
                               Merge(callee.env, callee.param :> args[1])) IN
                 R(r.v, {"<lambda>"} \cup r.calls, r.reads)
      [] callee.k = "host" /\ callee.f = "exit" ->
            \* exit(code) raises SystemExit
            R(IF kwargs # <<>> \/ Len(args) > 1 THEN Exc("TypeError")
              ELSE Exc("SystemExit"), {callee.f}, {})
      [] callee.k = "host" /\ callee.f # "exit" ->
            \* str.join(iterable)
            LET it == IF Len(args) = 1 THEN IterItems(args[1])
                      ELSE [ok |-> FALSE, items |-> <<>>] IN
            IF kwargs # <<>> \/ ~it.ok
               \/ \E i \in 1..Len(it.items) : it.items[i].k # "str"
            THEN R(Exc("TypeError"), {callee.f}, {})
            ELSE R(StrV(JoinStr(callee.self, it.items)), {callee.f}, {})
      [] OTHER -> R(Exc("TypeError"), {}, {})

\* a < b < c: each comparator is evaluated only if the chain is still true
CompareChain(prev, op, comps, G, L) ==
    LET c == Eval(Head(comps), G, L) IN
    IF IsExc(c.v) THEN c
    ELSE LET b == CompareV(op, prev, c.v) IN
         IF IsExc(b) \/ Len(comps) = 1 \/ ~b.b THEN R(b, c.calls, c.reads)
         ELSE LET rest == CompareChain(c.v, op, Tail(comps), G, L) IN
              R(rest.v, c.calls \cup rest.calls, c.reads \cup rest.reads)

\* the element expression of a comprehension, once per item
EvalEach(elt, target, items, G, L) ==
    IF items = <<>>
    THEN [vals |-> <<>>, exc |-> Exc("none"), calls |-> {}, reads |-> {}]
    ELSE LET h == Eval(elt, G, Merge(L, target :> Head(items))) IN
         IF IsExc(h.v)
         THEN [vals |-> <<>>, exc |-> h.v, calls |-> h.calls, reads |-> h.reads]
         ELSE LET rest == EvalEach(elt, target, Tail(items), G, L) IN
              [vals |-> <<h.v>> \o rest.vals, exc |-> rest.exc,
               calls |-> h.calls \cup rest.calls,
               reads |-> h.reads \cup rest.reads]

Eval(node, G, L) ==
    CASE node.t = "Name" ->
            \* locals, then globals, then the (empty) builtins
            IF node.id \in DOMAIN L THEN R(L[node.id], {}, {})
            ELSE R(IF node.id \in DOMAIN G THEN G[node.id] ELSE Exc("NameError"),
                   {}, {node.id})
      [] node.t = "Constant" ->
            R(IF node.kind = "num" THEN IntV(node.v) ELSE StrV(node.v), {}, {})
      [] node.t = "BinOp" ->
            LET l == Eval(node.left, G, L) IN
            IF IsExc(l.v) THEN l
            ELSE LET r == Eval(node.right, G, L) IN
                 R(P(node.op, l.v, r.v), l.calls \cup r.calls, l.reads \cup r.reads)
      [] node.t = "UnaryOp" ->
            LET x == Eval(node.operand, G, L) IN
            IF IsExc(x.v) THEN x
            ELSE R(UnaryOpTimes(node.op, node.times, x.v), x.calls, x.reads)
      [] node.t = "Call" ->
            LET f == Eval(node.func, G, L) IN
            IF IsExc(f.v) THEN f
            ELSE
            LET a == EvalSeq(node.args, G, L) IN
            IF a.exc # Exc("none")
            THEN R(a.exc, f.calls \cup a.calls, f.reads \cup a.reads)
            ELSE
            LET kw == EvalSeq([i \in 1..Len(node.keywords) |-> node.keywords[i].value],
                              G, L) IN
            IF kw.exc # Exc("none")
            THEN R(kw.exc, f.calls \cup a.calls \cup kw.calls,
                   f.reads \cup a.reads \cup kw.reads)
            ELSE
            LET kwargs == [i \in 1..Len(node.keywords) |->
                             [arg |-> node.keywords[i].arg, v |-> kw.vals[i]]]
                r == Invoke(f.v, a.vals, kwargs, G)
            IN R(r.v, f.calls \cup a.calls \cup kw.calls \cup r.calls,
                 f.reads \cup a.reads \cup kw.reads \cup r.reads)
      [] node.t = "Compare" ->
            LET l == Eval(node.left, G, L) IN
            IF IsExc(l.v) THEN l
            ELSE LET c == CompareChain(l.v, node.op, node.comparators, G, L) IN
                 R(c.v, l.calls \cup c.calls, l.reads \cup c.reads)
      [] node.t = "IfExp" ->
            LET c == Eval(node.test, G, L) IN
            IF IsExc(c.v) THEN c
            ELSE LET b == Eval(IF Truthy(c.v) THEN node.body ELSE node.orelse, G, L)
                 IN R(b.v, c.calls \cup b.calls, c.reads \cup b.reads)
      [] node.t = "BoolOp" ->
            LET l == Eval(node.values[1], G, L) IN
            IF IsExc(l.v) \/ (node.op = "And" /\ ~Truthy(l.v))
                          \/ (node.op = "Or" /\ Truthy(l.v))
            THEN l
            ELSE LET r == Eval(node.values[2], G, L) IN
                 R(r.v, l.calls \cup r.calls, l.reads \cup r.reads)
      [] node.t = "Attribute" ->
            LET x == Eval(node.value, G, L) IN
            IF IsExc(x.v) THEN x
            ELSE R(IF x.v.k = "str" /\ node.attr = "join" THEN HostV("str.join", x.v.s)
                   ELSE IF IsNumeric(x.v) /\ node.attr = "real" THEN AsNum(x.v)
                   \* a bound method of the engine hands out its function's
                   \* module globals
                   ELSE IF /\ x.v.k = "fn" /\ x.v.f \in FinancialFunctionNames
                           /\ node.attr = "__globals__"
                        THEN ObjV("globals")
                   ELSE Exc("AttributeError"), x.calls, x.reads)
      [] node.t = "Subscript" ->
            LET x == Eval(node.value, G, L) IN
            IF IsExc(x.v) THEN x
            ELSE LET i == Eval(node.slice, G, L)
                     it == IterItems(x.v)
                 IN R(IF IsExc(i.v) THEN i.v
                      \* the module globals hold the builtins of the
                      \* interpreter, exit() among them
                      ELSE IF x.v = ObjV("globals")
                      THEN IF i.v = StrV(S_builtins) THEN ObjV("builtins")
                           ELSE Exc("KeyError")
                      ELSE IF x.v = ObjV("builtins")
                      THEN IF i.v = StrV(S_exit) THEN HostV("exit", <<>>)
                           ELSE Exc("KeyError")
                      ELSE IF ~it.ok \/ ~IsInt(i.v) THEN Exc("TypeError")
                      ELSE LET n == AsNum(i.v).n
                               j == IF n < 0 THEN n + Len(it.items) + 1 ELSE n + 1
                           IN IF j \in 1..Len(it.items) THEN it.items[j]
                              ELSE Exc("IndexError"),
                      x.calls \cup i.calls, x.reads \cup i.reads)
      [] node.t = "List" ->
            LET e == EvalSeq(node.elts, G, L) IN
            R(IF e.exc # Exc("none") THEN e.exc ELSE ListV(e.vals), e.calls, e.reads)
      [] node.t = "ListComp" ->
            LET src == Eval(node.iter, G, L) IN
            IF IsExc(src.v) THEN src
            ELSE LET it == IterItems(src.v) IN
                 IF ~it.ok THEN R(Exc("TypeError"), src.calls, src.reads)
                 ELSE LET e == EvalEach(node.elt, node.target, it.items, G, L) IN
                      R(IF e.exc # Exc("none") THEN e.exc ELSE ListV(e.vals),
                        src.calls \cup e.calls, src.reads \cup e.reads)
      [] node.t = "Lambda" -> R(LambdaV(node.param, node.body, L), {}, {})
      [] node.t = "NamedExpr" -> Eval(node.value, G, L)
      \* eval() of a string that does not parse
      [] node.t = "SyntaxError" -> R(Exc("SyntaxError"), {}, {})

(***************************************************************************)
(* FormulaEngine.evaluate_formula, statement by statement.                 *)
(***************************************************************************)
\* mutant: evaluate_formula without its validation call
ev_validate_skipped(f) == "ok"

\* line 123: self.validate_formula(formula) inside the try block, one frame
\* deeper than the caller of evaluate_formula
ev_validate(f) == validate_in_frame(f, CallerFrames + 1)

\* mutant: a registry entry wins over a variable of the same name
safe_globals_registry_first(vs) ==
    Merge(Merge(vs, Merge(allowed_functions, allowed_constants)),
          "__builtins__" :> DictV)

\* lines 126-131: the globals handed to eval()
safe_globals(vs) ==
    Merge(Merge(Merge(allowed_functions, allowed_constants), vs),
          "__builtins__" :> DictV)

Failed(msg) == [status |-> "FormulaEvaluationError", msg |-> msg]
\* an exception no except clause catches leaves evaluate_formula as it is
Escaped(e) == [status |-> e.f, msg |-> "Uncaught"]
Returned(v) == [status |-> "ok", value |-> [k |-> "Decimal", n |-> v.n, d |-> v.d]]

\* mutant: an unbound name silently evaluates to a default of zero
ExceptHandler_silent_default(e) ==
    IF e.f = "ZeroDivisionError" THEN Failed("Division by zero")
    ELSE IF e.f \in {"ValueError", "TypeError"} THEN Failed("Formula evaluation error")
    ELSE IF e.f = "NameError" THEN Returned([n |-> 0, d |-> 1])
    ELSE Failed("Unexpected error")

\* mutant: the ZeroDivisionError clause is missing
ExceptHandler_no_zero_clause(e) ==
    IF e.f \in {"ValueError", "TypeError"} THEN Failed("Formula evaluation error")
    ELSE Failed("Unexpected error")

\* lines 144-149: the except clauses, tried in order; the last one is
\* "except Exception", which an exception deriving from BaseException alone
\* passes
ExceptHandler(e) ==
    IF e.f = "ZeroDivisionError" THEN Failed("Division by zero")
    ELSE IF e.f \in {"ValueError", "TypeError"} THEN Failed("Formula evaluation error")
    ELSE IF e.f \in {"SystemExit", "KeyboardInterrupt", "GeneratorExit"} THEN Escaped(e)
    ELSE Failed("Unexpected error")

\* lines 137-142: the conversion of eval()'s result.  A bool is an int, and
\* Decimal("True") raises InvalidOperation; the FormulaEvaluationError of
\* line 142 is raised inside the try block and caught by its last clause.
ConvertResult(v) ==
    IF v.k = "bool" THEN ExceptHandler(Exc("InvalidOperation"))
    ELSE IF v.k = "num" THEN Returned(v)
    ELSE ExceptHandler(Exc("FormulaEvaluationError"))

\* the whole call, as the projection engine uses it
evaluate_formula(f, vs) ==
    IF ev_validate(f) # "ok" THEN ExceptHandler(Exc("FormulaSecurityError"))
    ELSE LET r == Eval(f.ast, safe_globals(vs), EmptyDict) IN
         IF IsExc(r.v) THEN ExceptHandler(r.v) ELSE ConvertResult(r.v)

(***************************************************************************)
(* The formulas and variable mappings the engine is exercised with.        *)
(***************************************************************************)
\* every way of putting a tree h one level deeper
Wrap(h) ==
    {BinOp("Add", h, Name("b")), BinOp("Sub", h, Num(2)),
     BinOp("Mult", Name("a"), h), BinOp("Div", Name("a"), h),
     BinOp("Mod", Name("a"), h), BinOp("Pow", h, Num(2)),
     BinOp("FloorDiv", h, Name("b")),
     UnaryOp("USub", h), UnaryOp("Not", h),
     Call(Name("max"), <<h, Name("b")>>, <<>>),
     Call(Name("abs"), <<h>>, <<>>),
     Call(Name("pmt"), <<h, Name("nper"), Name("pv")>>, <<>>),
     Call(Name("max"), <<Name("a"), Name("b")>>, <<Keyword("key", h)>>),
     Call(Name("__import__"), <<h>>, <<>>),
     Call(Attribute(Name("a"), "real"), <<h>>, <<>>),
     Compare(h, "Gt", <<Num(0)>>),
     Compare(Name("a"), "Lt", <<h, Num(2)>>),
     IfExp(h, Name("a"), Num(0)),
     IfExp(Num(1), Name("a"), h),
     IfExp(Compare(Name("a"), "Gt", <<Num(0)>>), h, Num(0)),
     BoolOp("And", h, Name("b")),
     Attribute(h, "join"),
     Subscript(h, Num(0)),
     ListNode(<<h>>),
     ListComp(h, "x", Name("a")),
     Lambda("x", h),
     NamedExpr("y", h)}

Cores == {Name("a"), Name("b"), Name("x"), Num(0), Num(2), Str(S_ab)}

RECURSIVE TreesOfDepth(_)
TreesOfDepth(d) ==
    IF d = 0 THEN Cores
    ELSE LET prev == TreesOfDepth(d - 1) IN prev \cup UNION {Wrap(h) : h \in prev}

\* the formulas the specification names
Ex_a_plus_b_times_2 == BinOp("Add", Name("a"), BinOp("Mult", Name("b"), Num(2)))
Ex_max_a_b == Call(Name("max"), <<Name("a"), Name("b")>>, <<>>)
Ex_pmt == Call(Name("pmt"), <<Name("rate"), Name("nper"), Name("pv")>>, <<>>)
Ex_a_if_a_gt_0_else_0 ==
    IfExp(Compare(Name("a"), "Gt", <<Num(0)>>), Name("a"), Num(0))
Ex_a_div_b == BinOp("Div", Name("a"), Name("b"))
NamedExamples ==
    {Ex_a_plus_b_times_2, Ex_max_a_b, Ex_pmt, Ex_a_if_a_gt_0_else_0, Ex_a_div_b}
\* max(1, 2, key=pmt.__globals__['__builtins__']['exit'])
Ex_key_exit ==
    Call(Name("max"), <<Num(1), Num(2)>>,
         <<Keyword("key",
                   Subscript(Subscript(Attribute(Name("pmt"), "__globals__"),
                                       Str(S_builtins)),
                             Str(S_exit)))>>)

Trees ==
    TreesOfDepth(MaxDepth) \cup NamedExamples \cup {Ex_key_exit, SyntaxErrorTree}
Lengths == {ShortLen, MAX_FORMULA_LENGTH, MAX_FORMULA_LENGTH + 1}
\* runs of minus signs that all but fill a formula of the maximum length
DeepTrees ==
    {UnaryChain("USub", n, core) :
        n \in {RecursionLimit - 4, RecursionLimit - 3, RecursionLimit - 2,
                MAX_FORMULA_LENGTH - 1},
        core \in {Num(2), Name("a")}}
Formulas ==
    [len : Lengths, ast : Trees]
    \cup [len : {MAX_FORMULA_LENGTH, MAX_FORMULA_LENGTH + 1}, ast : DeepTrees]

V_zero_divisor == ("a" :> IntV(10)) @@ ("b" :> IntV(0))
V_loan == ("a" :> IntV(10)) @@ ("b" :> IntV(2)) @@ ("rate" :> IntV(0))
          @@ ("nper" :> IntV(1)) @@ ("pv" :> IntV(12))
V_strings == ("a" :> StrV(S_ab)) @@ ("b" :> IntV(1)) @@ ("__builtins__" :> IntV(7))
V_shadow == ("a" :> IntV(3)) @@ ("b" :> IntV(2)) @@ ("max" :> IntV(5))
            @@ ("rate" :> IntV(12)) @@ ("nper" :> IntV(1)) @@ ("pv" :> IntV(12))
VarMaps == {EmptyDict, V_zero_divisor, V_loan, V_strings, V_shadow}

(***************************************************************************)
(* The state machine of a call to the formula engine.                      *)
(***************************************************************************)
NoOutcome == [status |-> "none"]
NoValue == [k |-> "none"]
NoScenario == [id |-> 0]
NoDate == [y |-> 0, m |-> 0, d |-> 0]

FormulaIdle ==
    /\ formula = [len |-> 0, ast |-> SyntaxErrorTree]
    /\ variables = EmptyDict
    /\ pc = "idle"
    /\ outcome = NoOutcome
    /\ called = {}
    /\ lookups = {}
    /\ raw = NoValue

\* no calculate request has arrived, nothing is stored, nothing was read
NoRequest ==
    [pc |-> "idle", scenario |-> NoScenario, projections |-> <<>>,
     existing |-> {}, deleted |-> {}, added |-> {}, response |-> NoValue]
RecalcIdle ==
    /\ store = {}
    /\ req = <<>>
    /\ seen = NoValue

\* the tables behind the component and partnership endpoints are empty and
\* no request has been answered
ApiIdle ==
    /\ components = <<>>
    /\ partnerships = {}
    /\ response = NoValue

ProjectionIdle ==
    /\ scenario = NoScenario
    /\ attached = <<>>
    /\ ppc = "idle"
    /\ month_num = 0
    /\ current_date = NoDate
    /\ projections = <<>>
    /\ raised = NoValue

InitFormula ==
    /\ formula \in Formulas
    /\ variables = EmptyDict
    /\ pc = "start"
    /\ outcome = NoOutcome
    /\ called = {}
    /\ lookups = {}
    /\ raw = NoValue
    /\ ProjectionIdle
    /\ RecalcIdle
    /\ ApiIdle

\* a caller runs validate_formula(formula)
ValidateCall ==
    /\ pc = "start"
    /\ pc' = "validated"
    /\ outcome' = [status |-> validate_formula(formula)]
    /\ UNCHANGED <<formula, variables, called, lookups, raw>>
    /\ UNCHANGED pvars
    /\ UNCHANGED rvars
    /\ UNCHANGED avars

\* a caller enters evaluate_formula(formula, vs)
EvaluateCall ==
    /\ pc = "start"
    /\ \E vs \in VarMaps : variables' = vs
    /\ pc' = "ev_try"
    /\ UNCHANGED <<formula, outcome, called, lookups, raw>>
    /\ UNCHANGED pvars
    /\ UNCHANGED rvars
    /\ UNCHANGED avars

\* line 123
EvaluateValidate ==
    /\ pc = "ev_try"
    /\ IF ev_validate(formula) = "ok"
       THEN pc' = "ev_eval" /\ outcome' = outcome
       ELSE pc' = "done" /\ outcome' = ExceptHandler(Exc("FormulaSecurityError"))
    /\ UNCHANGED <<formula, variables, called, lookups, raw>>
    /\ UNCHANGED pvars
    /\ UNCHANGED rvars
    /\ UNCHANGED avars

\* lines 126-134
EvaluateEval ==
    /\ pc = "ev_eval"
    /\ LET r == Eval(formula.ast, safe_globals(variables), EmptyDict) IN
       /\ called' = r.calls
       /\ lookups' = r.reads
       /\ raw' = r.v
       /\ IF IsExc(r.v)
          THEN pc' = "done" /\ outcome' = ExceptHandler(r.v)
          ELSE pc' = "ev_convert" /\ outcome' = outcome
    /\ UNCHANGED <<formula, variables>>
    /\ UNCHANGED pvars
    /\ UNCHANGED rvars
    /\ UNCHANGED avars

\* lines 137-142
EvaluateConvert ==
    /\ pc = "ev_convert"
    /\ pc' = "done"
    /\ outcome' = ConvertResult(raw)
    /\ UNCHANGED <<formula, variables, called, lookups, raw>>
    /\ UNCHANGED pvars
    /\ UNCHANGED rvars
    /\ UNCHANGED avars

NextFormula ==
    \/ ValidateCall
    \/ EvaluateCall
    \/ EvaluateValidate
    \/ EvaluateEval
    \/ EvaluateConvert

SpecFormula == InitFormula /\ [][NextFormula]_vars

(***************************************************************************)
(* Properties of the formula engine.                                       *)
(***************************************************************************)
\* the subtrees of a node, in every position: operands, callee, positional
\* and keyword arguments, comparison operands, branches
Children(node) ==
    CASE node.t = "BinOp" -> <<node.left, node.right>>
      [] node.t = "UnaryOp" -> <<node.operand>>
      [] node.t = "Call" ->
            <<node.func>> \o node.args
            \o [i \in 1..Len(node.keywords) |-> node.keywords[i].value]
      [] node.t = "Compare" -> <<node.left>> \o node.comparators
      [] node.t = "IfExp" -> <<node.test, node.body, node.orelse>>
      [] node.t = "BoolOp" -> node.values
      [] node.t = "Attribute" -> <<node.value>>
      [] node.t = "Subscript" -> <<node.value, node.slice>>
      [] node.t = "List" -> node.elts
      [] node.t = "ListComp" -> <<node.elt, node.iter>>
      [] node.t = "Lambda" -> <<node.body>>
      [] node.t = "NamedExpr" -> <<node.value>>
      [] OTHER -> <<>>

UnsafeNodeTypes ==
    {"Attribute", "Subscript", "List", "ListComp", "Lambda", "NamedExpr"}

RECURSIVE ContainsUnsafe(_)
ContainsUnsafe(node) ==
    \/ node.t \in UnsafeNodeTypes
    \/ /\ node.t = "Call"
       /\ ~(node.func.t = "Name" /\ node.func.id \in RegistryNames)
    \/ \E i \in 1..Len(Children(node)) : ContainsUnsafe(Children(node)[i])

\* C1: a formula whose tree contains, at any depth and in any position, an
\* attribute access, a subscript, a collection literal or comprehension, a
\* lambda, an assignment expression or a call through anything but a bare
\* registry name is rejected by validate_formula with FormulaSecurityError.
C1_UnsafeConstructRejected ==
    (pc = "validated" /\ formula.ast.t # "SyntaxError" /\ ContainsUnsafe(formula.ast))
        => outcome.status = "FormulaSecurityError"

\* the grammar C2 speaks of
RECURSIVE InClaimGrammar(_)
InClaimGrammar(node) ==
    CASE node.t = "Name" -> TRUE
      [] node.t = "Constant" -> node.kind = "num"
      [] node.t = "BinOp" ->
            /\ node.op \in {"Add", "Sub", "Mult", "Div", "Mod", "Pow"}
            /\ InClaimGrammar(node.left) /\ InClaimGrammar(node.right)
      [] node.t = "UnaryOp" ->
            node.op \in {"UAdd", "USub"} /\ InClaimGrammar(node.operand)
      [] node.t = "Compare" ->
            /\ InClaimGrammar(node.left)
            /\ \A i \in 1..Len(node.comparators) : InClaimGrammar(node.comparators[i])
      [] node.t = "IfExp" ->
            /\ InClaimGrammar(node.test)
            /\ InClaimGrammar(node.body)
            /\ InClaimGrammar(node.orelse)
      [] node.t = "Call" ->
            /\ node.func.t = "Name" /\ node.func.id \in RegistryNames
            /\ node.keywords = <<>>
            /\ \A i \in 1..Len(node.args) : InClaimGrammar(node.args[i])
      [] OTHER -> FALSE

\* the number of nested levels of a tree: the frames its walk needs
RECURSIVE Levels(_)
Levels(node) ==
    LET below == {Levels(Children(node)[i]) : i \in 1..Len(Children(node))}
        deepest == IF below = {} THEN 0 ELSE CHOOSE m \in below : \A k \in below : k <= m
    IN (IF node.t = "UnaryOp" THEN node.times ELSE 1) + deepest

\* C2 as stated: validate_formula returns true for every formula of at most
\* MAX_FORMULA_LENGTH characters built only from numeric literals, names,
\* the six arithmetic operators, unary plus/minus, comparisons, conditional
\* expressions and positional calls to registry functions; in particular for
\* "a + b * 2", "max(a, b)", "pmt(rate, nper, pv)" and "a if a > 0 else 0".
C2_SafeGrammarAccepted ==
    (/\ pc = "validated"
     /\ formula.len <= MAX_FORMULA_LENGTH
     /\ \/ InClaimGrammar(formula.ast)
        \/ formula.ast \in {Ex_a_plus_b_times_2, Ex_max_a_b, Ex_pmt,
                            Ex_a_if_a_gt_0_else_0})
        => outcome.status = "ok"

\* C2 as amended: the same, for the formulas whose tree is nested no deeper
\* than the frames the interpreter's recursion limit leaves to the walk.
C2_ShallowSafeGrammarAccepted ==
    (/\ pc = "validated"
     /\ formula.len <= MAX_FORMULA_LENGTH
     /\ \/ InClaimGrammar(formula.ast)
        \/ formula.ast \in {Ex_a_plus_b_times_2, Ex_max_a_b, Ex_pmt,
                            Ex_a_if_a_gt_0_else_0}
     /\ CallerFrames + 1 + Levels(formula.ast) <= RecursionLimit)
        => outcome.status = "ok"

C2_Witness ==
    /\ pc = "validated"
    /\ formula = [len |-> MAX_FORMULA_LENGTH,
                  ast |-> UnaryChain("USub", RecursionLimit - 3, Num(2))]
    /\ outcome.status = "ok"

\* C3: every callable invoked while evaluate_formula runs is an entry of the
\* function registry, whatever the formula and the variable mapping.
C3_OnlyRegistryCallablesInvoked == called \subseteq RegistryNames

\* C4: when validate_formula rejects the formula, evaluate_formula fails
\* with an error and evaluates nothing: eval() is never entered, no callable
\* is invoked and no name is looked up.
C4_ValidateBeforeEvaluate ==
    (pc \in {"ev_eval", "ev_convert", "done"} /\ validate_formula(formula) # "ok")
        => /\ pc = "done"
           /\ outcome.status = "FormulaEvaluationError"
           /\ called = {} /\ lookups = {} /\ raw = NoValue

C4_Witness ==
    /\ pc = "done"
    /\ formula = [len |-> ShortLen, ast |-> Attribute(Name("a"), "join")]
    /\ variables = V_strings
    /\ outcome = Failed("Unexpected error")
    /\ lookups = {}

\* the names a formula references as variables (not as the callee of a call)
RECURSIVE VariableNames(_)
VariableNames(node) ==
    CASE node.t = "Name" -> {node.id}
      [] node.t = "Call" ->
            UNION {VariableNames(node.args[i]) : i \in 1..Len(node.args)}
      [] OTHER ->
            UNION {VariableNames(Children(node)[i]) : i \in 1..Len(Children(node))}

\* C5 as stated: a validated formula that references a name without a
\* binding in the variable mapping never yields a value.
C5_UnboundNameAlwaysFails ==
    (/\ pc = "done"
     /\ validate_formula(formula) = "ok"
     /\ \E n \in VariableNames(formula.ast) : n \notin DOMAIN variables)
        => outcome.status # "ok"

\* the names eval() finds in its globals without the caller binding them
EngineGlobals == RegistryNames \cup {"pi", "e", "__builtins__"}

\* C5 as amended: a validated formula whose evaluation looks up a name that
\* is bound neither by the variable mapping nor by the engine's own globals
\* fails with FormulaEvaluationError and yields no value.
C5_FailedLookupFails ==
    (/\ pc = "done"
     /\ validate_formula(formula) = "ok"
     /\ \E n \in lookups : n \notin DOMAIN variables \cup EngineGlobals)
        => outcome.status = "FormulaEvaluationError"

C5_Witness ==
    /\ pc = "done"
    /\ formula.ast = Ex_a_plus_b_times_2
    /\ variables = EmptyDict
    /\ lookups = {"a"}
    /\ outcome = Failed("Unexpected error")

\* C6: an evaluation that divides or takes a modulo by zero fails with the
\* FormulaEvaluationError "Division by zero".
C6_DivisionByZeroReported ==
    /\ (pc = "done" /\ raw = Exc("ZeroDivisionError"))
          => outcome = Failed("Division by zero")
    /\ (/\ pc = "done"
        /\ formula.len <= MAX_FORMULA_LENGTH
        /\ formula.ast \in {BinOp("Div", Name("a"), Name("b")),
                            BinOp("Mod", Name("a"), Name("b"))}
        /\ variables = V_zero_divisor)
          => outcome = Failed("Division by zero")

C6_Witness ==
    /\ pc = "done"
    /\ formula.ast = Ex_a_div_b
    /\ variables = V_zero_divisor
    /\ raw = Exc("ZeroDivisionError")
    /\ outcome = Failed("Division by zero")

(***************************************************************************)
(* Calendar dates (datetime.date) and Decimal arithmetic.                  *)
(***************************************************************************)
IsLeap(y) == (y % 4 = 0 /\ y % 100 # 0) \/ y % 400 = 0
DaysIn(y, m) ==
    IF m = 2 THEN (IF IsLeap(y) THEN 29 ELSE 28)
    ELSE IF m \in {4, 6, 9, 11} THEN 30 ELSE 31

\* date.__lt__ / date.__le__
DateLess(a, b) ==
    \/ a.y < b.y
    \/ a.y = b.y /\ a.m < b.m
    \/ a.y = b.y /\ a.m = b.m /\ a.d < b.d
DateLeq(a, b) == a = b \/ DateLess(a, b)

\* date.replace(year=, month=): ValueError when the day does not exist
DateReplace(date_obj, year, month) ==
    IF date_obj.d > DaysIn(year, month) THEN Exc("ValueError")
    ELSE DateV(year, month, date_obj.d)

\* strftime('%B').lower(), as code points: "january" .. "december"
MonthNames ==
    <<
      <<106, 97, 110, 117, 97, 114, 121>>,
      <<102, 101, 98, 114, 117, 97, 114, 121>>,
      <<109, 97, 114, 99, 104>>,
      <<97, 112, 114, 105, 108>>,
      <<109, 97, 121>>,
      <<106, 117, 110, 101>>,
      <<106, 117, 108, 121>>,
      <<97, 117, 103, 117, 115, 116>>,
      <<115, 101, 112, 116, 101, 109, 98, 101, 114>>,
      <<111, 99, 116, 111, 98, 101, 114>>,
      <<110, 111, 118, 101, 109, 98, 101, 114>>,
      <<100, 101, 99, 101, 109, 98, 101, 114>>
    >>
\* strftime('%b').lower(), the keys of seasonal_factors
MonthKeys ==
    <<"jan", "feb", "mar", "apr", "may", "jun", "jul", "aug", "sep", "oct",
      "nov", "dec">>

\* a Decimal, carried as the exact fraction n/d in lowest terms
Dec(n, d) == [k |-> "Decimal", n |-> Rat(n, d, FALSE).n, d |-> Rat(n, d, FALSE).d]
DecZero == Dec(0, 1)
DecAdd(a, b) == Dec(a.n * b.d + b.n * a.d, a.d * b.d)
DecSub(a, b) == Dec(a.n * b.d - b.n * a.d, a.d * b.d)
DecMul(a, b) == Dec(a.n * b.n, a.d * b.d)
DecDivInt(a, i) == Dec(a.n, a.d * i)

(***************************************************************************)
(* ProjectionEngine: the helpers of the month loop.                        *)
(***************************************************************************)
\* lines 192-196
add_months(date_obj, months) ==
    LET year == date_obj.y + ((date_obj.m - 1 + months) \div 12)
        month == ((date_obj.m - 1 + months) % 12) + 1
    IN DateReplace(date_obj, year, month)

\* Python's "x or y" on an optional date: a date is always truthy
OrElse(x, y) == IF x = NoValue THEN y ELSE x

\* mutant: the overrides are ignored
is_component_active_own_dates(component, scenario_component, date) ==
    LET start_date == component.start_date
        end_date == component.end_date
    IN IF DateLess(date, start_date) THEN FALSE
       ELSE IF end_date # NoValue /\ DateLess(end_date, date) THEN FALSE
       ELSE TRUE

\* lines 109-128
is_component_active(component, scenario_component, date) ==
    LET start_date == OrElse(scenario_component.start_date_override, component.start_date)
        end_date == OrElse(scenario_component.end_date_override, component.end_date)
    IN IF DateLess(date, start_date) THEN FALSE
       ELSE IF end_date # NoValue /\ DateLess(end_date, date) THEN FALSE
       ELSE TRUE

\* line 149: last day of the month, a date object
days_in_month(date) == DateV(date.y, date.m, DaysIn(date.y, date.m))

\* mutant: the time keys are written first, so stored values shadow them
component_variables_reserved_first(component, scenario_component, date, month) ==
    Merge(Merge(("month" :> IntV(month)) @@ ("year" :> IntV(date.y))
                @@ ("month_name" :> StrV(MonthNames[date.m]))
                @@ ("days_in_month" :> days_in_month(date)),
                component.variables),
          IF scenario_component.variable_overrides # NoValue
          THEN scenario_component.variable_overrides ELSE EmptyDict)

\* lines 139-150: defaults, then scenario overrides, then the time keys
component_variables(component, scenario_component, date, month) ==
    LET base == component.variables
        merged == IF scenario_component.variable_overrides # NoValue
                     /\ scenario_component.variable_overrides # EmptyDict
                  THEN Merge(base, scenario_component.variable_overrides)
                  ELSE base
    IN Merge(merged,
             ("month" :> IntV(month)) @@ ("year" :> IntV(date.y))
             @@ ("month_name" :> StrV(MonthNames[date.m]))
             @@ ("days_in_month" :> days_in_month(date)))

\* lines 172-175: the factor is Decimal(str(float)), carried as a Decimal
apply_seasonal_factors(component, date, base_value) ==
    IF component.seasonal_factors # NoValue
       /\ MonthKeys[date.m] \in DOMAIN component.seasonal_factors
    THEN DecMul(base_value, component.seasonal_factors[MonthKeys[date.m]])
    ELSE base_value

\* mutant: a quarterly component is applied in the last month of a quarter
apply_frequency_quarter_ends(component, date, month, r) ==
    IF r.status # "ok" THEN r
    ELSE [status |-> "ok",
          value |->
             IF component.frequency = "yearly" /\ date.m # 1 THEN DecZero
             ELSE IF component.frequency = "quarterly" /\ date.m \notin {3, 6, 9, 12}
             THEN DecZero
             ELSE IF component.frequency = "one-time" /\ month > 1 THEN DecZero
             ELSE apply_seasonal_factors(component, date,
                      IF component.frequency = "yearly" THEN DecDivInt(r.value, 12)
                      ELSE IF component.frequency = "quarterly" THEN DecDivInt(r.value, 3)
                      ELSE r.value)]

\* lines 155-177: what becomes of the formula's value r.value
apply_frequency(component, date, month, r) ==
    IF r.status # "ok" THEN r
    ELSE [status |-> "ok",
          value |->
             IF component.frequency = "yearly" /\ date.m # 1 THEN DecZero
             ELSE IF component.frequency = "quarterly" /\ date.m \notin {1, 4, 7, 10}
             THEN DecZero
             ELSE IF component.frequency = "one-time" /\ month > 1 THEN DecZero
             ELSE apply_seasonal_factors(component, date,
                      IF component.frequency = "yearly" THEN DecDivInt(r.value, 12)
                      ELSE IF component.frequency = "quarterly" THEN DecDivInt(r.value, 3)
                      ELSE r.value)]

\* lines 130-177; the result is [status, value] or the exception raised
calculate_component_value(component, scenario_component, date, month) ==
    apply_frequency(component, date, month,
        evaluate_formula(component.formula,
            component_variables(component, scenario_component, date, month)))

\* strptime(event['date'], '%Y-%m-%d').date(): ValueError on other text
ParseDate(text) == IF text.k = "date" THEN text ELSE Exc("ValueError")

\* mutant: an event of the very date of the month is not yet active
RECURSIVE active_events_loop_before(_, _, _, _)
active_events_loop_before(events, i, date, active_events) ==
    IF i > Len(events) THEN [raised |-> NoValue, active_events |-> active_events]
    ELSE LET event_date == ParseDate(events[i].date) IN
         IF IsExc(event_date) THEN [raised |-> event_date, active_events |-> <<>>]
         ELSE active_events_loop_before(events, i + 1, date,
                  IF DateLess(event_date, date)
                  THEN Append(active_events, events[i]) ELSE active_events)

\* lines 184-188: the list built so far, or the exception that ends the loop
RECURSIVE active_events_loop(_, _, _, _)
active_events_loop(events, i, date, active_events) ==
    IF i > Len(events) THEN [raised |-> NoValue, active_events |-> active_events]
    ELSE LET event_date == ParseDate(events[i].date) IN
         IF IsExc(event_date) THEN [raised |-> event_date, active_events |-> <<>>]
         ELSE active_events_loop(events, i + 1, date,
                  IF DateLeq(event_date, date)
                  THEN Append(active_events, events[i]) ELSE active_events)

\* lines 179-190: None, {'active_events': [...]} or the exception raised
get_active_life_events(scn, date) ==
    IF scn.life_events = NoValue \/ scn.life_events = ListV(<<>>) THEN NoValue
    ELSE LET r == active_events_loop(scn.life_events.items, 1, date, <<>>) IN
         IF r.raised # NoValue THEN r.raised
         ELSE IF r.active_events = <<>> THEN NoValue
         ELSE [k |-> "dict", active_events |-> r.active_events]

(***************************************************************************)
(* The rows a projection run reads.                                        *)
(***************************************************************************)
FC(id, name, category, ast, vs, start_date, end_date, frequency, seasonal_factors) ==
    [id |-> id, name |-> name, category |-> category,
     formula |-> [len |-> ShortLen, ast |-> ast], variables |-> vs,
     start_date |-> start_date, end_date |-> end_date,
     frequency |-> frequency, seasonal_factors |-> seasonal_factors]

\* the financial_components table: two rows share the name "salary"; the
\* formula of "rent" divides by its variable b, which defaults to 0; the
\* formula of "utilities" is a daily amount times days_in_month
FinancialComponentRows ==
    {FC(1, "salary", "income", Ex_a_plus_b_times_2,
        ("a" :> IntV(100)) @@ ("b" :> IntV(10)),
        DateV(2023, 1, 1), NoValue, "monthly", NoValue),
     FC(2, "salary", "income", Name("a"),
        ("a" :> IntV(50)) @@ ("month" :> IntV(99)),
        DateV(2024, 1, 1), NoValue, "monthly", NoValue),
     FC(3, "rent", "expense", Ex_a_div_b,
        ("a" :> IntV(40)) @@ ("b" :> IntV(0)),
        DateV(2023, 1, 1), NoValue, "monthly", NoValue),
     FC(4, "bonus", "income", Num(1200), EmptyDict,
        DateV(2023, 1, 1), DateV(2024, 1, 15), "yearly",
        "jan" :> Dec(11, 10)),
     FC(5, "house", "asset", BinOp("Mult", Name("a"), Name("month")),
        "a" :> IntV(300),
        DateV(2023, 1, 1), NoValue, "quarterly", NoValue),
     FC(6, "loan", "liability", Name("a"), "a" :> IntV(70),
        DateV(2023, 12, 1), NoValue, "one-time", NoValue),
     FC(7, "dividend", "income", Num(1200), EmptyDict,
        DateV(2020, 1, 1), NoValue, "yearly", NoValue),
     FC(8, "utilities", "expense", BinOp("Mult", Name("a"), Name("days_in_month")),
        "a" :> IntV(3),
        DateV(2023, 1, 1), NoValue, "monthly", NoValue)}

\* line 34: {fc.id: fc for fc in ...}
financial_components == [id \in {fc.id : fc \in FinancialComponentRows} |->
                            CHOOSE fc \in FinancialComponentRows : fc.id = id]

SC(id, variable_overrides, start_date_override, end_date_override) ==
    [financial_component_id |-> id, variable_overrides |-> variable_overrides,
     start_date_override |-> start_date_override,
     end_date_override |-> end_date_override]

\* the scenario_components rows a scenario may hold: no row of the schema
\* constrains how often a component is attached
ScenarioComponentRows ==
    {SC(id, NoValue, NoValue, NoValue) : id \in DOMAIN financial_components}
    \cup {SC(id, ("b" :> IntV(2)) @@ ("year" :> IntV(1)), DateV(2023, 12, 1), NoValue) :
             id \in DOMAIN financial_components}
    \cup {SC(id, NoValue, NoValue, DateV(2023, 12, 31)) :
             id \in DOMAIN financial_components}

RECURSIVE SeqsUpTo(_, _)
SeqsUpTo(S, n) ==
    IF n = 0 THEN {<<>>}
    ELSE LET shorter == SeqsUpTo(S, n - 1) IN
         shorter \cup {Append(q, x) : q \in shorter, x \in S}

StartDates == {DateV(2023, 12, 15), DateV(2024, 1, 31), DateV(2023, 11, 30)}
Event_move == [name |-> "move", date |-> DateV(2024, 1, 1)]
Event_undated == [name |-> "baby", date |-> StrV(S_ab)]
Event_job == [name |-> "job", date |-> DateV(2023, 12, 15)]
LifeEventLists ==
    {NoValue, ListV(<<Event_move>>), ListV(<<Event_undated>>),
     ListV(<<Event_move, Event_job>>)}

Scenarios ==
    [id : {1}, start_date : StartDates, projection_months : 1..MaxMonths,
     life_events : LifeEventLists]

(***************************************************************************)
(* ProjectionEngine.calculate_scenario_projection.                         *)
(***************************************************************************)
\* lines 41-45
EmptyTotals ==
    [component_breakdown |-> EmptyDict, total_income |-> DecZero,
     total_expenses |-> DecZero, total_assets |-> DecZero,
     total_liabilities |-> DecZero]

\* lines 59-63 and 77-82
BreakdownEntry(fc, value) ==
    [value |-> value, category |-> fc.category, component_id |-> fc.id]
ErrorEntry(fc, e) ==
    [value |-> DecZero, category |-> fc.category, component_id |-> fc.id,
     error |-> e.msg]

\* lines 66-73
AddToTotals(t, fc, value) ==
    IF fc.category = "income"
    THEN [t EXCEPT !.total_income = DecAdd(@, value)]
    ELSE IF fc.category = "expense"
    THEN [t EXCEPT !.total_expenses = DecAdd(@, value)]
    ELSE IF fc.category = "asset"
    THEN [t EXCEPT !.total_assets = DecAdd(@, value)]
    ELSE IF fc.category = "liability"
    THEN [t EXCEPT !.total_liabilities = DecAdd(@, value)]
    ELSE t

\* lines 57-82: the try block and its except clause, r is the outcome of
\* _calculate_component_value
RecordValue(t, fc, r) ==
    IF r.status = "ok"
    THEN AddToTotals(
             [t EXCEPT !.component_breakdown =
                 Merge(@, fc.name :> BreakdownEntry(fc, r.value))],
             fc, r.value)
    ELSE [t EXCEPT !.component_breakdown = Merge(@, fc.name :> ErrorEntry(fc, r))]

\* lines 48-82: the body of the loop over the scenario's components
component_step(t, sc, date, month) ==
    IF sc.financial_component_id \notin DOMAIN financial_components THEN t
    ELSE IF ~is_component_active(financial_components[sc.financial_component_id],
                                 sc, date)
    THEN t
    ELSE RecordValue(t, financial_components[sc.financial_component_id],
             calculate_component_value(
                 financial_components[sc.financial_component_id], sc, date, month))

\* lines 47-82: the loop over the scenario's components, from row i on
RECURSIVE component_loop(_, _, _, _, _)
component_loop(scenario_components, i, date, month, t) ==
    IF i > Len(scenario_components) THEN t
    ELSE component_loop(scenario_components, i + 1, date, month,
             component_step(t, scenario_components[i], date, month))

\* mutant: the net values are sums
NetOf_sum(plus, minus) == DecAdd(plus, minus)

\* lines 85-86
NetOf(plus, minus) == DecSub(plus, minus)

\* lines 85-100, t holds the totals and the breakdown of the month
ProjectionOf(t, date, month, active_life_events) ==
    [projection_date |-> date,
     month_number |-> month,
     total_income |-> t.total_income,
     total_expenses |-> t.total_expenses,
     net_cash_flow |-> NetOf(t.total_income, t.total_expenses),
     total_assets |-> t.total_assets,
     total_liabilities |-> t.total_liabilities,
     net_worth |-> NetOf(t.total_assets, t.total_liabilities),
     component_breakdown |-> t.component_breakdown,
     active_life_events |-> active_life_events]

\* lines 41-100; the life events are read while the record is built
MonthlyProjectionCreate(scn, scenario_components, date, month) ==
    ProjectionOf(component_loop(scenario_components, 1, date, month, EmptyTotals),
                 date, month, get_active_life_events(scn, date))

InitProjection ==
    /\ FormulaIdle
    /\ scenario \in Scenarios
    /\ attached \in SeqsUpTo(ScenarioComponentRows, MaxAttached)
    /\ ppc = "start"
    /\ month_num = 0
    /\ current_date = NoDate
    /\ projections = <<>>
    /\ raised = NoValue
    /\ RecalcIdle
    /\ ApiIdle

\* lines 26-39: the rows are read and the loop is entered
ProjectionStart ==
    /\ ppc = "start"
    /\ ppc' = "loop"
    /\ projections' = <<>>
    /\ current_date' = scenario.start_date
    /\ month_num' = 1
    /\ UNCHANGED <<scenario, attached, raised>>
    /\ UNCHANGED fvars
    /\ UNCHANGED rvars
    /\ UNCHANGED avars

\* lines 89-105: the record is appended and the date advanced, unless
\* building the record or advancing the date raised
AppendAndAdvance(projection, next_date) ==
    IF projection.active_life_events # NoValue
       /\ IsExc(projection.active_life_events)
    THEN /\ ppc' = "raised"
         /\ raised' = [exc |-> projection.active_life_events.f,
                       in |-> "_get_active_life_events"]
         /\ UNCHANGED <<projections, current_date, month_num>>
    ELSE IF IsExc(next_date)
    THEN /\ ppc' = "raised"
         /\ raised' = [exc |-> next_date.f, in |-> "_add_months"]
         /\ projections' = Append(projections, projection)
         /\ UNCHANGED <<current_date, month_num>>
    ELSE /\ projections' = Append(projections, projection)
         /\ current_date' = next_date
         /\ month_num' = month_num + 1
         /\ UNCHANGED <<ppc, raised>>

\* lines 40-105: one iteration of the month loop
ProjectionMonth ==
    /\ ppc = "loop"
    /\ month_num <= scenario.projection_months
    /\ AppendAndAdvance(
           MonthlyProjectionCreate(scenario, attached, current_date, month_num),
           add_months(current_date, 1))
    /\ UNCHANGED <<scenario, attached>>
    /\ UNCHANGED fvars
    /\ UNCHANGED rvars
    /\ UNCHANGED avars

\* line 107
ProjectionReturn ==
    /\ ppc = "loop"
    /\ month_num > scenario.projection_months
    /\ ppc' = "returned"
    /\ UNCHANGED <<scenario, attached, month_num, current_date, projections, raised>>
    /\ UNCHANGED fvars
    /\ UNCHANGED rvars
    /\ UNCHANGED avars

NextProjection ==
    \/ ProjectionStart
    \/ ProjectionMonth
    \/ ProjectionReturn

SpecProjection == InitProjection /\ [][NextProjection]_vars

(***************************************************************************)
(* Properties of the projection engine.                                    *)
(***************************************************************************)
Records == {projections[i] : i \in 1..Len(projections)}

\* a date advanced by n calendar months, same day-of-month
AdvancedBy(date, n) ==
    DateV(date.y + ((date.m - 1 + n) \div 12), ((date.m - 1 + n) % 12) + 1, date.d)

\* C7: calculate_scenario_projection returns, and what it returns are
\* exactly N records in order, the i-th with month_number i and with the
\* start date advanced by i-1 calendar months as its projection_date.
C7_ExactlyNRecordsInOrder ==
    /\ ~(ppc = "raised" /\ raised.in = "_add_months")
    /\ ppc = "returned" =>
          /\ Len(projections) = scenario.projection_months
          /\ \A i \in 1..Len(projections) :
                /\ projections[i].month_number = i
                /\ projections[i].projection_date =
                       AdvancedBy(scenario.start_date, i - 1)

\* C8: every record emitted has net_cash_flow = total_income - total_expenses
\* and net_worth = total_assets - total_liabilities.
C8_NetValues ==
    \A p \in Records :
        /\ p.net_cash_flow = DecSub(p.total_income, p.total_expenses)
        /\ p.net_worth = DecSub(p.total_assets, p.total_liabilities)

C8_Witness ==
    /\ ppc = "returned"
    /\ \E p \in Records :
          /\ p.total_income # DecZero
          /\ p.total_expenses # DecZero
          /\ p.net_cash_flow \notin {DecZero, p.total_income, p.total_expenses}
    /\ \E p \in Records : p.net_cash_flow = DecZero /\ p.total_income = DecZero

\* the sum of the values of the breakdown entries of one category
RECURSIVE SumOfEntries(_, _, _)
SumOfEntries(breakdown, names, category) ==
    IF names = {} THEN DecZero
    ELSE LET name == CHOOSE n \in names : TRUE
             rest == SumOfEntries(breakdown, names \ {name}, category)
         IN IF breakdown[name].category = category
            THEN DecAdd(breakdown[name].value, rest) ELSE rest

CategorySum(p, category) ==
    SumOfEntries(p.component_breakdown, DOMAIN p.component_breakdown, category)

\* C9: in every record emitted, each category total equals the sum of the
\* values of the record's breakdown entries of that category.
C9_TotalsMatchBreakdown ==
    \A p \in Records :
        /\ p.total_income = CategorySum(p, "income")
        /\ p.total_expenses = CategorySum(p, "expense")
        /\ p.total_assets = CategorySum(p, "asset")
        /\ p.total_liabilities = CategorySum(p, "liability")

\* the activation window as the specification words it
EffectiveStart(fc, sc) ==
    IF sc.start_date_override # NoValue THEN sc.start_date_override ELSE fc.start_date
EffectiveEnd(fc, sc) ==
    IF sc.end_date_override # NoValue THEN sc.end_date_override ELSE fc.end_date
ActiveByWindow(fc, sc, date) ==
    /\ DateLeq(EffectiveStart(fc, sc), date)
    /\ EffectiveEnd(fc, sc) = NoValue \/ DateLeq(date, EffectiveEnd(fc, sc))
ActiveByOwnDates(fc, date) ==
    /\ DateLeq(fc.start_date, date)
    /\ fc.end_date = NoValue \/ DateLeq(date, fc.end_date)

ComponentOf(i) == financial_components[attached[i].financial_component_id]
ActiveRows(date) ==
    {i \in 1..Len(attached) : ActiveByWindow(ComponentOf(i), attached[i], date)}

\* what the rows of the set contribute to one category in the month of p
RECURSIVE Contribution(_, _, _)
Contribution(rows, p, category) ==
    IF rows = {} THEN DecZero
    ELSE LET i == CHOOSE j \in rows : TRUE
             r == calculate_component_value(ComponentOf(i), attached[i],
                      p.projection_date, p.month_number)
             rest == Contribution(rows \ {i}, p, category)
         IN IF ComponentOf(i).category = category /\ r.status = "ok"
            THEN DecAdd(r.value, rest) ELSE rest

\* C10: in every record emitted, the components treated as active are those
\* whose effective window (an override replacing the component's own date)
\* contains the record's date: every breakdown entry belongs to such a
\* component, every such component has an entry under its name, and the
\* totals are the contributions of exactly these components.
C10_ActiveIffInWindow ==
    \A p \in Records :
        LET active == ActiveRows(p.projection_date) IN
        /\ \A n \in DOMAIN p.component_breakdown :
              \E i \in active :
                 /\ ComponentOf(i).name = n
                 /\ ComponentOf(i).id = p.component_breakdown[n].component_id
        /\ \A i \in active : ComponentOf(i).name \in DOMAIN p.component_breakdown
        /\ p.total_income = Contribution(active, p, "income")
        /\ p.total_expenses = Contribution(active, p, "expense")
        /\ p.total_assets = Contribution(active, p, "asset")
        /\ p.total_liabilities = Contribution(active, p, "liability")

C10_Witness ==
    /\ ppc = "returned"
    /\ \E p \in Records :
          /\ \E i \in 1..Len(attached) :
                /\ i \notin ActiveRows(p.projection_date)
                /\ ActiveByOwnDates(ComponentOf(i), p.projection_date)
                /\ ComponentOf(i).name \notin DOMAIN p.component_breakdown
    /\ \E p \in Records :
          \E i \in ActiveRows(p.projection_date) :
                /\ ~ActiveByOwnDates(ComponentOf(i), p.projection_date)
                /\ p.component_breakdown[ComponentOf(i).name].value # DecZero

(***************************************************************************)
(* The helpers of the projection engine, each called on its own: one row,  *)
(* one date and one month index are given, and _calculate_component_value  *)
(* or _add_months is applied to them.                                      *)
(***************************************************************************)
HelperDates ==
    {DateV(y, m, d) : y \in {2023, 2024}, m \in 1..12, d \in {1, 15, 28}}
    \cup {DateV(y, m, DaysIn(y, m)) : y \in {2023, 2024}, m \in 1..12}
    \cup {DateV(2024, 1, 29), DateV(2024, 1, 30), DateV(2023, 1, 29)}

InitHelpers ==
    /\ FormulaIdle
    /\ scenario = NoScenario
    /\ attached \in {<<sc>> : sc \in ScenarioComponentRows}
    /\ ppc = "helper"
    /\ month_num \in 1..MaxMonths
    /\ current_date \in HelperDates
    /\ projections = <<>>
    /\ raised = NoValue
    /\ RecalcIdle
    /\ ApiIdle

\* lines 130-177: _calculate_component_value(fc, sc, current_date, month_num);
\* formula and variables are what it hands to evaluate_formula (line 153)
CalculateComponentValue ==
    /\ ppc = "helper"
    /\ ppc' = "value_done"
    /\ formula' = financial_components[attached[1].financial_component_id].formula
    /\ variables' = component_variables(
                        financial_components[attached[1].financial_component_id],
                        attached[1], current_date, month_num)
    /\ outcome' = calculate_component_value(
                        financial_components[attached[1].financial_component_id],
                        attached[1], current_date, month_num)
    /\ UNCHANGED <<pc, called, lookups, raw>>
    /\ UNCHANGED <<scenario, attached, month_num, current_date, projections, raised>>
    /\ UNCHANGED rvars
    /\ UNCHANGED avars

\* the assignment of what _add_months returns, or the exception it raises
AssignDate(next_date) ==
    IF IsExc(next_date)
    THEN /\ ppc' = "raised"
         /\ raised' = [exc |-> next_date.f, in |-> "_add_months"]
         /\ UNCHANGED current_date
    ELSE /\ ppc' = "advanced"
         /\ current_date' = next_date
         /\ UNCHANGED raised

\* line 105: current_date = self._add_months(current_date, 1)
AddMonths ==
    /\ ppc = "helper"
    /\ AssignDate(add_months(current_date, 1))
    /\ UNCHANGED <<scenario, attached, month_num, projections>>
    /\ UNCHANGED fvars
    /\ UNCHANGED rvars
    /\ UNCHANGED avars

NextHelpers ==
    \/ CalculateComponentValue
    \/ AddMonths

SpecHelpers == InitHelpers /\ [][NextHelpers]_vars

\* the time keys of a month, as the specification lists them
ReservedKeys == {"month", "year", "month_name", "days_in_month"}
HelperComponent == financial_components[attached[1].financial_component_id]
HelperOverrides ==
    IF attached[1].variable_overrides = NoValue THEN EmptyDict
    ELSE attached[1].variable_overrides

\* C11: the variable set a formula is evaluated with holds every default,
\* override and reserved key; a reserved key has the month's own value, any
\* other key its override when there is one and its default otherwise.
C11_VariablePrecedence ==
    ppc = "value_done" =>
        /\ DOMAIN variables = DOMAIN HelperComponent.variables
                                \cup DOMAIN HelperOverrides \cup ReservedKeys
        /\ variables["month"] = IntV(month_num)
        /\ variables["year"] = IntV(current_date.y)
        /\ variables["month_name"] = StrV(MonthNames[current_date.m])
        /\ variables["days_in_month"] = days_in_month(current_date)
        /\ \A k \in DOMAIN HelperOverrides \ ReservedKeys :
              variables[k] = HelperOverrides[k]
        /\ \A k \in DOMAIN HelperComponent.variables
                     \ (ReservedKeys \cup DOMAIN HelperOverrides) :
              variables[k] = HelperComponent.variables[k]

C11_Witness ==
    /\ ppc = "value_done"
    /\ "year" \in DOMAIN HelperOverrides
    /\ "b" \in DOMAIN HelperOverrides /\ "b" \in DOMAIN HelperComponent.variables
    /\ variables["b"] # HelperComponent.variables["b"]
    /\ variables["year"] # HelperOverrides["year"]

(***************************************************************************)
(* A two-year projection of the yearly component "dividend" alone.         *)
(***************************************************************************)
TwoYears == 24

InitYearly ==
    /\ FormulaIdle
    /\ scenario \in [id : {1}, start_date : HelperDates,
                     projection_months : {TwoYears}, life_events : {NoValue}]
    /\ attached = <<SC(7, NoValue, NoValue, NoValue)>>
    /\ ppc = "start"
    /\ month_num = 0
    /\ current_date = NoDate
    /\ projections = <<>>
    /\ raised = NoValue
    /\ RecalcIdle
    /\ ApiIdle

SpecYearly == InitYearly /\ [][NextProjection]_vars

\* C12: the yearly component valued 1200, active in every month and without
\* seasonal factors, contributes 100 in every January and 0 in every other
\* month, and a 24-month projection from any start date has exactly two
\* non-zero months.
C12_YearlyTwoJanuaries ==
    ppc \in {"returned", "raised"} =>
        /\ ppc = "returned"
        /\ Len(projections) = TwoYears
        /\ \A p \in Records :
              /\ "dividend" \in DOMAIN p.component_breakdown
              /\ p.component_breakdown["dividend"].value =
                     IF p.projection_date.m = 1 THEN Dec(100, 1) ELSE DecZero
        /\ Cardinality({i \in 1..Len(projections) :
               projections[i].component_breakdown["dividend"].value # DecZero}) = 2

\* the value V the formula of the call evaluates to
FormulaValue == evaluate_formula(formula, variables)

\* C13: a quarterly component without seasonal factors whose formula
\* evaluates to V is valued V/3 in the calendar months 1, 4, 7 and 10 and
\* exactly 0 in every other month.
C13_QuarterlyRule ==
    (/\ ppc = "value_done"
     /\ HelperComponent.frequency = "quarterly"
     /\ HelperComponent.seasonal_factors = NoValue
     /\ FormulaValue.status = "ok")
        => /\ outcome.status = "ok"
           /\ outcome.value =
                 IF current_date.m \in {1, 4, 7, 10}
                 THEN Dec(FormulaValue.value.n, 3 * FormulaValue.value.d)
                 ELSE DecZero

C13_Witness ==
    /\ ppc = "value_done"
    /\ HelperComponent.frequency = "quarterly"
    /\ current_date = DateV(2024, 4, 30)
    /\ month_num = 2
    /\ FormulaValue.value = Dec(600, 1)
    /\ outcome.value = Dec(200, 1)

(***************************************************************************)
(* One-time components in a projection run.                                *)
(***************************************************************************)
OneTimeRows == {i \in 1..Len(attached) : ComponentOf(i).frequency = "one-time"}

\* the value the formula of row i evaluates to in the month of record p
EvaluatedValue(i, p) ==
    evaluate_formula(ComponentOf(i).formula,
        component_variables(ComponentOf(i), attached[i],
                            p.projection_date, p.month_number))

\* what the record holds under a component name, 0 when it holds nothing
EntryValue(p, name) ==
    IF name \in DOMAIN p.component_breakdown
    THEN p.component_breakdown[name].value ELSE DecZero

\* C14: with a horizon of 2 or more, every attached one-time component,
\* whatever its own start and end dates, contributes its evaluated value in
\* the record of month 1 and 0 in every later record.
C14_OneTimeInFirstMonth ==
    scenario.projection_months >= 2 =>
        \A p \in Records : \A i \in OneTimeRows :
            EvaluatedValue(i, p).status = "ok" =>
                IF p.month_number = 1
                THEN /\ ComponentOf(i).name \in DOMAIN p.component_breakdown
                     /\ EntryValue(p, ComponentOf(i).name) = EvaluatedValue(i, p).value
                ELSE EntryValue(p, ComponentOf(i).name) = DecZero

(***************************************************************************)
(* Failing components in a projection run.                                 *)
(***************************************************************************)
\* the outcome of _calculate_component_value for row i in the month of p
ValueOfRow(i, p) ==
    calculate_component_value(ComponentOf(i), attached[i],
                              p.projection_date, p.month_number)

FailingRows(p) ==
    {i \in ActiveRows(p.projection_date) : ValueOfRow(i, p).status # "ok"}

\* C15: in a month in which the evaluation of an active component fails,
\* the breakdown entry of that component has value 0 and an error, the entry
\* of every other active component holds that component's own value, and
\* the totals are the sums over the components that were evaluated.
C15_FailureIsolated ==
    \A p \in Records :
        FailingRows(p) # {} =>
            LET active == ActiveRows(p.projection_date) IN
            /\ \A i \in active :
                  /\ ComponentOf(i).name \in DOMAIN p.component_breakdown
                  /\ IF i \in FailingRows(p)
                     THEN /\ p.component_breakdown[ComponentOf(i).name].value = DecZero
                          /\ "error" \in DOMAIN p.component_breakdown[ComponentOf(i).name]
                     ELSE p.component_breakdown[ComponentOf(i).name].value =
                              ValueOfRow(i, p).value
            /\ p.total_income = Contribution(active, p, "income")
            /\ p.total_expenses = Contribution(active, p, "expense")
            /\ p.total_assets = Contribution(active, p, "asset")
            /\ p.total_liabilities = Contribution(active, p, "liability")

(***************************************************************************)
(* ProjectionEngine.recalculate_scenario, the calculate endpoint that      *)
(* calls it and the projections endpoint that reads what it stored.  Each  *)
(* request runs in a database session of its own; a request is at one of   *)
(* its await points.                                                       *)
(***************************************************************************)
\* number of calculate requests made for the scenario
MaxRequests == 2
Requests == 1..MaxRequests

\* pagination defaults of get_scenario_projections
skip == 0
limit == 60

\* lines 16-107 run as one call: the list of records, or the exception that
\* ended the month loop; projection is the record of the month and next_date
\* the date _add_months returns for it
RECURSIVE projection_loop(_, _, _, _, _)
projection_step(scn, scenario_components, month, acc, projection, next_date) ==
    IF projection.active_life_events # NoValue
       /\ IsExc(projection.active_life_events)
    THEN [raised |-> [exc |-> projection.active_life_events.f,
                      in |-> "_get_active_life_events"],
          projections |-> <<>>]
    ELSE IF IsExc(next_date)
    THEN [raised |-> [exc |-> next_date.f, in |-> "_add_months"],
          projections |-> <<>>]
    ELSE projection_loop(scn, scenario_components, next_date, month + 1,
                         Append(acc, projection))

projection_loop(scn, scenario_components, date, month, acc) ==
    IF month > scn.projection_months
    THEN [raised |-> NoValue, projections |-> acc]
    ELSE projection_step(scn, scenario_components, month, acc,
             MonthlyProjectionCreate(scn, scenario_components, date, month),
             add_months(date, 1))

calculate_scenario_projection(scn, scenario_components) ==
    projection_loop(scn, scenario_components, scn.start_date, 1, <<>>)

\* lines 230-234: the MonthlyProjection row made of the i-th record of
\* request r; its primary key is a fresh uuid
MonthlyProjectionRow(r, i, scenario_id, projection_data) ==
    [id |-> <<r, i>>, user_id |-> "user", scenario_id |-> scenario_id]
        @@ projection_data

NewRows(r) ==
    {MonthlyProjectionRow(r, i, req[r].scenario.id, req[r].projections[i]) :
        i \in 1..Len(req[r].projections)}

\* the committed rows a SELECT by scenario_id and user_id returns
SelectProjections(scenario_id) ==
    {row \in store : row.scenario_id = scenario_id /\ row.user_id = "user"}

\* the unit of work of a session, flushed and committed in one transaction
SessionCommit(rows, deleted, added) == (rows \ deleted) \cup added

\* scenarios.py lines 222-237: what the endpoint makes of the call's end
Response200(returned) ==
    [status |-> 200, projections_count |-> Len(returned)]
ResponseOfError(e) ==
    [status |-> IF e.exc = "ValueError" THEN 404 ELSE 500, detail |-> e]

\* lines 207-212: the scenario is looked up
Lookup(r) ==
    /\ req' = [req EXCEPT ![r] =
                 IF scenario = NoScenario
                 THEN [@ EXCEPT !.pc = "done",
                                !.response = ResponseOfError(
                                    [exc |-> "ValueError",
                                     in |-> "Scenario not found"])]
                 ELSE [@ EXCEPT !.pc = "calculate", !.scenario = scenario]]
    /\ UNCHANGED <<store, seen>>
    /\ UNCHANGED fvars
    /\ UNCHANGED pvars
    /\ UNCHANGED avars

\* a calculate request arrives, whatever other requests are doing
RecalcLookup(r) ==
    /\ req[r].pc = "idle"
    /\ Lookup(r)

\* a calculate request arrives when the earlier ones have been answered
RecalcLookupInTurn(r) ==
    /\ \A q \in Requests : IF q < r THEN req[q].pc = "done" ELSE req[q].pc = "idle"
    /\ Lookup(r)

\* line 215, calculated is what calculate_scenario_projection returns or raises
AssignProjections(r, calculated) ==
    req' = [req EXCEPT ![r] =
              IF calculated.raised # NoValue
              THEN [@ EXCEPT !.pc = "done",
                             !.response = ResponseOfError(calculated.raised)]
              ELSE [@ EXCEPT !.pc = "select",
                             !.projections = calculated.projections]]

\* mutant: the stored rows are deleted, and the deletion committed, before
\* the projection is computed
RecalcCalculate_delete_first(r) ==
    /\ req[r].pc = "calculate"
    /\ AssignProjections(r, calculate_scenario_projection(req[r].scenario, attached))
    /\ store' = SessionCommit(store, SelectProjections(req[r].scenario.id), {})
    /\ UNCHANGED seen
    /\ UNCHANGED fvars
    /\ UNCHANGED pvars
    /\ UNCHANGED avars

RecalcCalculate(r) ==
    /\ req[r].pc = "calculate"
    /\ AssignProjections(r, calculate_scenario_projection(req[r].scenario, attached))
    /\ UNCHANGED <<store, seen>>
    /\ UNCHANGED fvars
    /\ UNCHANGED pvars
    /\ UNCHANGED avars

\* lines 218-223
RecalcSelectExisting(r) ==
    /\ req[r].pc = "select"
    /\ req' = [req EXCEPT ![r] =
                 [@ EXCEPT !.pc = "delete",
                           !.existing = SelectProjections(req[r].scenario.id)]]
    /\ UNCHANGED <<store, seen>>
    /\ UNCHANGED fvars
    /\ UNCHANGED pvars
    /\ UNCHANGED avars

\* mutant: the deletions are committed on their own
RecalcDelete_committed(r) ==
    /\ req[r].pc = "delete"
    /\ req' = [req EXCEPT ![r] = [@ EXCEPT !.pc = "add"]]
    /\ store' = SessionCommit(store, req[r].existing, {})
    /\ UNCHANGED seen
    /\ UNCHANGED fvars
    /\ UNCHANGED pvars
    /\ UNCHANGED avars

\* lines 225-226: the rows read are marked as deleted in the session
RecalcDelete(r) ==
    /\ req[r].pc = "delete"
    /\ req' = [req EXCEPT ![r] =
                 [@ EXCEPT !.pc = "add", !.deleted = req[r].existing]]
    /\ UNCHANGED <<store, seen>>
    /\ UNCHANGED fvars
    /\ UNCHANGED pvars
    /\ UNCHANGED avars

\* lines 228-237: the new rows are added to the session
RecalcAdd(r) ==
    /\ req[r].pc = "add"
    /\ req' = [req EXCEPT ![r] = [@ EXCEPT !.pc = "commit", !.added = NewRows(r)]]
    /\ UNCHANGED <<store, seen>>
    /\ UNCHANGED fvars
    /\ UNCHANGED pvars
    /\ UNCHANGED avars

\* lines 239-241 and scenarios.py lines 226-229
RecalcCommit(r) ==
    /\ req[r].pc = "commit"
    /\ store' = SessionCommit(store, req[r].deleted, req[r].added)
    /\ req' = [req EXCEPT ![r] =
                 [@ EXCEPT !.pc = "done",
                           !.response = Response200(req[r].projections)]]
    /\ UNCHANGED seen
    /\ UNCHANGED fvars
    /\ UNCHANGED pvars
    /\ UNCHANGED avars

\* scenarios.py lines 112-158: update_scenario with a new horizon and a new
\* start date
UpdateScenario(months, start_date) ==
    /\ scenario # NoScenario
    /\ scenario' = [scenario EXCEPT !.projection_months = months,
                                    !.start_date = start_date]
    /\ scenario' # scenario
    /\ UNCHANGED <<attached, ppc, month_num, current_date, projections, raised>>
    /\ UNCHANGED rvars
    /\ UNCHANGED avars
    /\ UNCHANGED fvars

\* the rows of a page: ordered by month_number (ties by key), skip rows
\* skipped and at most limit rows kept
Precedes(a, b) ==
    \/ a.month_number < b.month_number
    \/ a.month_number = b.month_number /\ a.id[1] < b.id[1]
PageOf(rows) ==
    {row \in rows :
        /\ Cardinality({q \in rows : Precedes(q, row)}) >= skip
        /\ Cardinality({q \in rows : Precedes(q, row)}) < skip + limit}

\* scenarios.py lines 240-273: get_scenario_projections
GetScenarioProjections ==
    /\ seen' = IF scenario = NoScenario
               THEN [status |-> 404, rows |-> {}]
               ELSE [status |-> 200, rows |-> PageOf(SelectProjections(scenario.id))]
    /\ seen' # seen
    /\ UNCHANGED <<store, req>>
    /\ UNCHANGED fvars
    /\ UNCHANGED pvars
    /\ UNCHANGED avars

RecalcStartDates == {DateV(2023, 12, 15), DateV(2024, 1, 31)}
RecalcScenarios ==
    [id : {1}, start_date : RecalcStartDates, projection_months : 1..MaxMonths,
     life_events : {NoValue, ListV(<<Event_undated>>)}]

InitRecalc ==
    /\ FormulaIdle
    /\ scenario \in RecalcScenarios \cup {NoScenario}
    /\ attached = <<SC(1, NoValue, NoValue, NoValue)>>
    /\ ppc = "idle"
    /\ month_num = 0
    /\ current_date = NoDate
    /\ projections = <<>>
    /\ raised = NoValue
    /\ store = {}
    /\ req = [r \in Requests |-> NoRequest]
    /\ seen = NoValue
    /\ ApiIdle

\* requests of any kind arrive at any time
NextRecalc ==
    \/ \E r \in Requests : RecalcLookup(r)
    \/ \E r \in Requests : RecalcCalculate(r)
    \/ \E r \in Requests : RecalcSelectExisting(r)
    \/ \E r \in Requests : RecalcDelete(r)
    \/ \E r \in Requests : RecalcAdd(r)
    \/ \E r \in Requests : RecalcCommit(r)
    \/ \E months \in 1..MaxMonths, start_date \in RecalcStartDates :
          UpdateScenario(months, start_date)
    \/ GetScenarioProjections

SpecRecalc == InitRecalc /\ [][NextRecalc]_vars

\* the calculate requests are made one after another
NextInTurn ==
    \/ \E r \in Requests : RecalcLookupInTurn(r)
    \/ \E r \in Requests : RecalcCalculate(r)
    \/ \E r \in Requests : RecalcSelectExisting(r)
    \/ \E r \in Requests : RecalcDelete(r)
    \/ \E r \in Requests : RecalcAdd(r)
    \/ \E r \in Requests : RecalcCommit(r)
    \/ \E months \in 1..MaxMonths, start_date \in RecalcStartDates :
          UpdateScenario(months, start_date)
    \/ GetScenarioProjections

SpecInTurn == InitRecalc /\ [][NextInTurn]_vars

(***************************************************************************)
(* Properties of recalculation.                                            *)
(***************************************************************************)
\* C16: a calculate request that finds its scenario runs to completion and
\* produces all N records; only a missing scenario ends a request with an
\* error.
C16_RunsToCompletion ==
    \A r \in Requests :
        (req[r].pc = "done" /\ req[r].scenario # NoScenario) =>
            /\ req[r].response.status = 200
            /\ req[r].response.projections_count = req[r].scenario.projection_months
            /\ Len(req[r].projections) = req[r].scenario.projection_months

\* the calendar month after the month of a date
FollowingMonth(date) ==
    IF date.m = 12 THEN [y |-> date.y + 1, m |-> 1] ELSE [y |-> date.y, m |-> date.m + 1]

\* C17: _add_months(d, 1) does not raise and returns a valid calendar date
\* in the month following d, for every d.
C17_AddMonthsNeverRaises ==
    [][(ppc = "helper" /\ ppc' \in {"advanced", "raised"}) =>
          /\ ppc' = "advanced"
          /\ current_date'.y = FollowingMonth(current_date).y
          /\ current_date'.m = FollowingMonth(current_date).m
          /\ current_date'.d \in 1..DaysIn(current_date'.y, current_date'.m)]_vars

\* the calls made so far, none of them still running
Answered == {r \in Requests : req[r].pc = "done"}
InFlight == {r \in Requests : req[r].pc \notin {"idle", "done"}}
LastCall == CHOOSE r \in Answered : \A q \in Answered : q <= r

\* C18: after k >= 1 recalculations of a scenario made one after another
\* the table holds exactly N rows of the scenario, N being the horizon the
\* last call found: one row for each month number 1..N, each of them stored
\* by the last call.
C18_ExactlyNAfterCalls ==
    (InFlight = {} /\ Answered # {} /\ scenario # NoScenario) =>
        LET rows == SelectProjections(scenario.id)
            N == req[LastCall].scenario.projection_months
        IN /\ Cardinality(rows) = N
           /\ {row.month_number : row \in rows} = 1..N
           /\ \A row \in rows : row.id[1] = LastCall

\* what one call stored: the rows of all its records
RowsOf(r) ==
    {MonthlyProjectionRow(r, i, req[r].scenario.id, req[r].projections[i]) :
        i \in 1..Len(req[r].projections)}
Committed == {r \in Requests : req[r].pc = "done" /\ req[r].response.status = 200}

\* C19: a request for the projections of a scenario gets either the whole
\* set of rows of one recalculation or, before the first recalculation has
\* committed, no rows: never an empty set afterwards, never a part of a set
\* and never rows of two recalculations.
C19_ReaderSeesWholeSet ==
    [][(seen' # seen /\ seen'.status = 200) =>
          \/ seen'.rows = {} /\ Committed' = {}
          \/ \E r \in Committed' : seen'.rows = RowsOf(r)']_vars

\* the second recalculation has its deletions and insertions pending, and
\* the rows last read are the whole set of the first one
C19_Witness ==
    /\ req[1].pc = "done"
    /\ req[2].pc = "commit"
    /\ req[2].deleted = RowsOf(1)
    /\ Cardinality(req[2].deleted) = 3
    /\ Cardinality(req[2].added) = 2
    /\ seen = [status |-> 200, rows |-> RowsOf(1)]

\* C20: the recalculations of a scenario are serialized: at most one
\* request is between reading the existing rows and its commit, and when
\* all requests have committed the table holds the N rows of one of them.
C20_Serialized ==
    /\ Cardinality({r \in Requests : req[r].pc \in {"delete", "add", "commit"}}) <= 1
    /\ (Committed = Requests /\ scenario # NoScenario) =>
           \E r \in Requests :
              /\ SelectProjections(scenario.id) = RowsOf(r)
              /\ Cardinality(RowsOf(r)) = req[r].scenario.projection_months

(***************************************************************************)
(* The financial component endpoints: create_financial_component and       *)
(* update_financial_component.  Of a stored component the formula is kept. *)
(***************************************************************************)
\* number of components created
MaxComponents == 2

\* the empty string: nothing to parse
EmptyFormula == [len |-> 0, ast |-> SyntaxErrorTree]

\* formulas a request body may carry
BodyFormulas ==
    {[len |-> ShortLen, ast |-> Ex_a_plus_b_times_2],
     [len |-> ShortLen, ast |-> Ex_max_a_b],
     [len |-> MAX_FORMULA_LENGTH, ast |-> Name("a")],
     [len |-> MAX_FORMULA_LENGTH + 1, ast |-> Name("a")],
     [len |-> ShortLen, ast |-> Lambda("x", Name("a"))],
     [len |-> ShortLen, ast |-> SyntaxErrorTree],
     EmptyFormula}

\* the formula field of a FinancialComponentUpdate: left unset, null or a string
Unset == [k |-> "unset"]
UpdateFormulas == BodyFormulas \cup {Unset, NoValue}

\* schemas/financial_component.py lines 33-37: the body is refused
SchemaRefuses(f) == f.len > MAX_FORMULA_LENGTH

\* lines 40-67
CreateFinancialComponent(f) ==
    /\ Len(components) < MaxComponents
    /\ IF SchemaRefuses(f)
       THEN /\ response' = [op |-> "create", formula |-> f, status |-> 422]
            /\ UNCHANGED components
       ELSE IF validate_formula(f) # "ok"
       THEN /\ response' = [op |-> "create", formula |-> f, status |-> 400]
            /\ UNCHANGED components
       ELSE /\ response' = [op |-> "create", formula |-> f, status |-> 200]
            /\ components' = Append(components, f)
    /\ UNCHANGED partnerships
    /\ UNCHANGED fvars
    /\ UNCHANGED pvars
    /\ UNCHANGED rvars

\* lines 137-138: the validation is skipped for a formula that is None or
\* the empty string
ValidationSkipped(f) == f \in {Unset, NoValue} \/ f.len = 0

\* lines 114-155; a null formula breaks the NOT NULL constraint of the
\* column (models/financial_component.py line 21) at the commit
UpdateFinancialComponent(id, f) ==
    /\ IF id \notin DOMAIN components
       THEN /\ response' = [op |-> "update", id |-> id, formula |-> f, status |-> 404]
            /\ UNCHANGED components
       ELSE IF ~ValidationSkipped(f) /\ validate_formula(f) # "ok"
       THEN /\ response' = [op |-> "update", id |-> id, formula |-> f, status |-> 400]
            /\ UNCHANGED components
       ELSE IF f = NoValue
       THEN /\ response' = [op |-> "update", id |-> id, formula |-> f, status |-> 500]
            /\ UNCHANGED components
       ELSE /\ response' = [op |-> "update", id |-> id, formula |-> f, status |-> 200]
            /\ components' = IF f = Unset THEN components
                             ELSE [components EXCEPT ![id] = f]
    /\ UNCHANGED partnerships
    /\ UNCHANGED fvars
    /\ UNCHANGED pvars
    /\ UNCHANGED rvars

InitComponents ==
    /\ FormulaIdle
    /\ ProjectionIdle
    /\ RecalcIdle
    /\ ApiIdle

NextComponents ==
    \/ \E f \in BodyFormulas : CreateFinancialComponent(f)
    \/ \E id \in 1..(MaxComponents + 1), f \in UpdateFormulas :
          UpdateFinancialComponent(id, f)

SpecComponents == InitComponents /\ [][NextComponents]_vars

\* C21: every stored component's formula is one validate_formula accepts,
\* and a create or update whose formula the validator rejects is answered
\* with an error and leaves the stored components as they were.
C21_StoredFormulasValid ==
    /\ \A id \in DOMAIN components : validate_formula(components[id]) = "ok"
    /\ (/\ response # NoValue
        /\ response.formula \notin {Unset, NoValue}
        /\ validate_formula(response.formula) # "ok")
           => response.status # 200

(***************************************************************************)
(* The scenario endpoints create_scenario and update_scenario, over the    *)
(* one scenario row of the model.                                          *)
(***************************************************************************)
\* schemas/scenario.py line 18
MaxProjectionMonths == 120

\* horizons a request body may carry
BodyMonths == {-1, 0, 1, 2, MaxProjectionMonths, MaxProjectionMonths + 1}

\* schemas/scenario.py lines 16-20: validate_projection_months refuses
MonthsRefused(months) == months < 1 \/ months > MaxProjectionMonths

\* scenarios.py lines 42-72, the body validated as a ScenarioCreate
CreateScenario(months, start_date, life_events) ==
    /\ scenario = NoScenario
    /\ IF MonthsRefused(months)
       THEN /\ response' = [op |-> "create_scenario", months |-> months, status |-> 422]
            /\ UNCHANGED scenario
       ELSE /\ response' = [op |-> "create_scenario", months |-> months, status |-> 200]
            /\ scenario' = [id |-> 1, start_date |-> start_date,
                            projection_months |-> months, life_events |-> life_events]
    /\ UNCHANGED <<attached, ppc, month_num, current_date, projections, raised>>
    /\ UNCHANGED <<components, partnerships>>
    /\ UNCHANGED fvars
    /\ UNCHANGED rvars

\* scenarios.py lines 161-207: the scenario goes with its projections and
\* its scenario components
DeleteScenario ==
    /\ scenario # NoScenario
    /\ scenario' = NoScenario
    /\ attached' = <<>>
    /\ store' = {row \in store : row.scenario_id # scenario.id}
    /\ response' = [op |-> "delete_scenario", months |-> scenario.projection_months,
                    status |-> 200]
    /\ UNCHANGED <<ppc, month_num, current_date, projections, raised>>
    /\ UNCHANGED <<req, seen, components, partnerships>>
    /\ UNCHANGED fvars

\* projection_engine.py line 39: the number of iterations of
\* range(1, scenario.projection_months + 1)
LoopIterations(scn) ==
    IF scn.projection_months < 0 THEN 0 ELSE scn.projection_months

InitScenarios ==
    /\ FormulaIdle
    /\ ProjectionIdle
    /\ RecalcIdle
    /\ ApiIdle

NextScenarios ==
    \/ \E months \in BodyMonths, start_date \in StartDates,
          life_events \in {NoValue, ListV(<<Event_move>>)} :
          CreateScenario(months, start_date, life_events)
    \/ \E months \in BodyMonths, start_date \in StartDates :
          UpdateScenario(months, start_date)
    \/ DeleteScenario

SpecScenarios == InitScenarios /\ [][NextScenarios]_vars

\* C22: the projection_months of the stored scenario lies in 1..120, so a
\* projection run iterates at least one month and at most 120 months.
C22_HorizonInRange ==
    scenario # NoScenario =>
        /\ scenario.projection_months \in 1..MaxProjectionMonths
        /\ LoopIterations(scenario) \in 1..MaxProjectionMonths

(***************************************************************************)
(* The order of a month's components.                                      *)
(***************************************************************************)
\* the attached rows in every order
Reorderings(rows) ==
    {[i \in 1..Len(rows) |-> rows[f[i]]] : f \in Permutations(1..Len(rows))}

\* totals and breakdown of the month of record p, the rows taken in the
\* given order
MonthOf(rows, p) ==
    component_loop(rows, 1, p.projection_date, p.month_number, EmptyTotals)

\* C23: the totals and the component_breakdown of every record are what
\* the month's date and index give with the attached components processed
\* in any order.
C23_OrderIndependent ==
    \A p \in Records : \A rows \in Reorderings(attached) :
        /\ MonthOf(rows, p).component_breakdown = p.component_breakdown
        /\ MonthOf(rows, p).total_income = p.total_income
        /\ MonthOf(rows, p).total_expenses = p.total_expenses
        /\ MonthOf(rows, p).total_assets = p.total_assets
        /\ MonthOf(rows, p).total_liabilities = p.total_liabilities

(***************************************************************************)
(* get_scenario_summary, over the rows a recalculation stored.             *)
(***************************************************************************)
\* net cash flows of the stored months
CashFlows == {-10, 0, 10, 20}

\* the record of a month with the given net cash flow
RecordOfCashFlow(v, date, month) ==
    ProjectionOf([EmptyTotals EXCEPT
                     !.total_income = Dec(IF v > 0 THEN v ELSE 0, 1),
                     !.total_expenses = Dec(IF v < 0 THEN -v ELSE 0, 1),
                     !.total_assets = Dec(IF v > 0 THEN v ELSE 0, 1)],
                 date, month, NoValue)

\* the rows one recalculation stores for a scenario starting 2023-12-15
StoredRows(flows) ==
    {MonthlyProjectionRow(1, i, 1,
         RecordOfCashFlow(flows[i], AdvancedBy(DateV(2023, 12, 15), i - 1), i)) :
        i \in 1..Len(flows)}

\* lines 299-305: the rows in the order of the query
OrderedRows(rows) ==
    [i \in 1..Cardinality(rows) |->
        CHOOSE row \in rows : Cardinality({q \in rows : Precedes(q, row)}) = i - 1]

DecLess(a, b) == a.n * b.d < b.n * a.d

\* mutant: a later month of the same net cash flow replaces the earlier one
RECURSIVE max_by_cash_flow_last(_, _, _)
max_by_cash_flow_last(rows, i, best) ==
    IF i > Len(rows) THEN best
    ELSE max_by_cash_flow_last(rows, i + 1,
             IF ~DecLess(rows[i].net_cash_flow, best.net_cash_flow)
             THEN rows[i] ELSE best)

\* line 330: max(projections, key=...) keeps the item met first among equals
RECURSIVE max_by_cash_flow(_, _, _)
max_by_cash_flow(rows, i, best) ==
    IF i > Len(rows) THEN best
    ELSE max_by_cash_flow(rows, i + 1,
             IF DecLess(best.net_cash_flow, rows[i].net_cash_flow)
             THEN rows[i] ELSE best)

\* line 331: min(projections, key=...)
RECURSIVE min_by_cash_flow(_, _, _)
min_by_cash_flow(rows, i, best) ==
    IF i > Len(rows) THEN best
    ELSE min_by_cash_flow(rows, i + 1,
             IF DecLess(rows[i].net_cash_flow, best.net_cash_flow)
             THEN rows[i] ELSE best)

\* lines 317-319: sum(...) of the field values
RECURSIVE SumOver(_, _, _)
SumOver(rows, i, field) ==
    IF i > Len(rows) THEN DecZero
    ELSE DecAdd(rows[i][field], SumOver(rows, i + 1, field))

\* lines 316-344
ProjectionSummary(rows) ==
    [start_date |-> rows[1].projection_date,
     end_date |-> rows[Len(rows)].projection_date,
     total_months |-> Len(rows),
     average_monthly_income |-> DecDivInt(SumOver(rows, 1, "total_income"), Len(rows)),
     average_monthly_expenses |->
         DecDivInt(SumOver(rows, 1, "total_expenses"), Len(rows)),
     average_monthly_cash_flow |->
         DecDivInt(SumOver(rows, 1, "net_cash_flow"), Len(rows)),
     final_net_worth |-> rows[Len(rows)].net_worth,
     net_worth_change |-> DecSub(rows[Len(rows)].net_worth, rows[1].net_worth),
     best_month |-> max_by_cash_flow(rows, 2, rows[1]).projection_date,
     worst_month |-> min_by_cash_flow(rows, 2, rows[1]).projection_date]

\* lines 276-344
GetScenarioSummary ==
    /\ response = NoValue
    /\ response' =
          IF scenario = NoScenario \/ SelectProjections(scenario.id) = {}
          THEN [op |-> "summary", status |-> 404]
          ELSE [op |-> "summary", status |-> 200,
                summary |-> ProjectionSummary(
                                OrderedRows(SelectProjections(scenario.id)))]
    /\ UNCHANGED <<components, partnerships>>
    /\ UNCHANGED fvars
    /\ UNCHANGED pvars
    /\ UNCHANGED rvars

InitSummary ==
    /\ FormulaIdle
    /\ scenario \in {NoScenario,
                     [id |-> 1, start_date |-> DateV(2023, 12, 15),
                      projection_months |-> MaxMonths, life_events |-> NoValue]}
    /\ attached = <<>>
    /\ ppc = "idle"
    /\ month_num = 0
    /\ current_date = NoDate
    /\ projections = <<>>
    /\ raised = NoValue
    /\ store \in {StoredRows(flows) : flows \in SeqsUpTo(CashFlows, MaxMonths)}
    /\ req = <<>>
    /\ seen = NoValue
    /\ ApiIdle

NextSummary == GetScenarioSummary

SpecSummary == InitSummary /\ [][NextSummary]_vars

\* the stored rows of the scenario
SummaryRows == SelectProjections(scenario.id)

\* the row of the lowest month number among those of the given cash flow
FirstMonthWith(rows, flow) ==
    CHOOSE row \in rows :
        /\ row.net_cash_flow = flow
        /\ \A q \in rows : q.net_cash_flow = flow => row.month_number <= q.month_number

\* C24: for a non-empty stored projection sequence the summary's best_month
\* is the date of the lowest-numbered month whose net cash flow is the
\* maximum, and worst_month the date of the lowest-numbered month whose net
\* cash flow is the minimum.
C24_BestAndWorstMonth ==
    (response # NoValue /\ response.op = "summary" /\ response.status = 200) =>
        /\ \E best \in SummaryRows :
              /\ \A q \in SummaryRows : ~DecLess(best.net_cash_flow, q.net_cash_flow)
              /\ response.summary.best_month =
                     FirstMonthWith(SummaryRows, best.net_cash_flow).projection_date
        /\ \E worst \in SummaryRows :
              /\ \A q \in SummaryRows : ~DecLess(q.net_cash_flow, worst.net_cash_flow)
              /\ response.summary.worst_month =
                     FirstMonthWith(SummaryRows, worst.net_cash_flow).projection_date

\* months 1 and 3 share the best net cash flow: month 1 is reported
C24_Witness ==
    /\ response # NoValue
    /\ response.op = "summary"
    /\ response.status = 200
    /\ store = StoredRows(<<20, -10, 20>>)
    /\ response.summary.best_month = DateV(2023, 12, 15)
    /\ response.summary.worst_month = DateV(2024, 1, 15)

(***************************************************************************)
(* The life events of a month.                                             *)
(***************************************************************************)
\* the events of the scenario dated on or before the date, in their order
EventsUpTo(date) ==
    IF scenario.life_events = NoValue THEN <<>>
    ELSE SelectSeq(scenario.life_events.items,
                   LAMBDA event : DateLeq(event.date, date))

\* the events a record lists
EventsListed(p) ==
    IF p.active_life_events = NoValue THEN <<>>
    ELSE p.active_life_events.active_events

\* C25: the active events of every record are exactly the life events of
\* the scenario dated on or before the record's date, absent when there are
\* none; an event listed in a month is listed in every later month.
C25_ActiveEvents ==
    /\ \A p \in Records :
          /\ EventsListed(p) = EventsUpTo(p.projection_date)
          /\ p.active_life_events = NoValue <=> EventsUpTo(p.projection_date) = <<>>
    /\ \A i, j \in 1..Len(projections) :
          i < j => \A k \in 1..Len(EventsListed(projections[i])) :
                      \E l \in 1..Len(EventsListed(projections[j])) :
                         EventsListed(projections[j])[l] = EventsListed(projections[i])[k]

\* the event of the very date of month 1 is listed in month 1, both events
\* in months 2 and 3
C25_Witness ==
    /\ ppc = "returned"
    /\ Len(projections) = 3
    /\ projections[1].projection_date = Event_job.date
    /\ EventsListed(projections[1]) = <<Event_job>>
    /\ EventsListed(projections[2]) = <<Event_move, Event_job>>
    /\ EventsListed(projections[3]) = <<Event_move, Event_job>>

(***************************************************************************)
(* The reserved variable days_in_month.                                    *)
(***************************************************************************)
\* the rows whose formula multiplies by days_in_month
DailyRows == {i \in 1..Len(attached) : ComponentOf(i).name = "utilities"}

\* what row i has days_in_month bound to in the month of p
DaysBound(i, p) ==
    component_variables(ComponentOf(i), attached[i],
                        p.projection_date, p.month_number)["days_in_month"]

\* C26: in every month days_in_month is bound to the number of days of the
\* month of the projection date, an integer of 28..31, and an active
\* component whose formula multiplies by it is not recorded as failed.
C26_DaysInMonthIsNumber ==
    \A p \in Records :
        \A i \in ActiveRows(p.projection_date) :
            /\ DaysBound(i, p) = IntV(DaysIn(p.projection_date.y, p.projection_date.m))
            /\ DaysBound(i, p).n \in 28..31
            /\ i \in DailyRows =>
                  /\ ValueOfRow(i, p).status = "ok"
                  /\ "error" \notin DOMAIN p.component_breakdown["utilities"]

(***************************************************************************)
(* The exceptions that leave the formula engine.                           *)
(***************************************************************************)
\* C27: validate_formula returns true or raises FormulaSecurityError,
\* evaluate_formula returns a Decimal or raises FormulaEvaluationError, and
\* a formula the validator rejects inside evaluate_formula is reported as a
\* FormulaEvaluationError.
C27_OnlyEngineErrorsEscape ==
    /\ pc = "validated" => outcome.status \in {"ok", "FormulaSecurityError"}
    /\ pc = "done" =>
          /\ outcome.status \in {"ok", "FormulaEvaluationError"}
          /\ outcome.status = "ok" => outcome.value.k = "Decimal"
          /\ ev_validate(formula) # "ok" => outcome.status = "FormulaEvaluationError"

(***************************************************************************)
(* Variables named like registry entries.                                  *)
(***************************************************************************)
\* the names a formula calls
RECURSIVE CalleeNames(_)
CalleeNames(node) ==
    UNION {CalleeNames(Children(node)[i]) : i \in 1..Len(Children(node))}
    \cup IF node.t = "Call" /\ node.func.t = "Name" THEN {node.func.id} ELSE {}

\* every name a formula mentions, in whatever position
RECURSIVE NamesIn(_)
NamesIn(node) ==
    UNION {NamesIn(Children(node)[i]) : i \in 1..Len(Children(node))}
    \cup IF node.t = "Name" THEN {node.id} ELSE {}

\* the variables of the caller that bear the name of a registry entry
Shadowed == DOMAIN variables \cap (RegistryNames \cup DOMAIN allowed_constants)

\* C28 as stated: a validated formula that calls a name the caller has bound
\* as a variable fails with FormulaEvaluationError.
C28_ShadowedCallAlwaysFails ==
    (/\ pc = "done"
     /\ ev_validate(formula) = "ok"
     /\ CalleeNames(formula.ast) \cap Shadowed # {})
        => outcome.status = "FormulaEvaluationError"

\* C28 as amended: a variable of the caller named like a registry entry is
\* what the name resolves to and the registry function of that name is
\* never invoked; a validated formula whose evaluation reaches a call of
\* such a name fails with FormulaEvaluationError; a registry name the caller
\* leaves unbound resolves to the registry entry and is not reported unbound.
C28_VariableShadowsRegistry ==
    /\ \A n \in Shadowed : safe_globals(variables)[n] = variables[n]
    /\ \A n \in (RegistryNames \cup DOMAIN allowed_constants) \ Shadowed :
          safe_globals(variables)[n] =
              Merge(allowed_functions, allowed_constants)[n]
    /\ pc = "done" /\ ev_validate(formula) = "ok" =>
          /\ called \cap Shadowed = {}
          /\ (\E n \in CalleeNames(formula.ast) \cap Shadowed :
                 n \in lookups /\ n \notin VariableNames(formula.ast))
                => outcome.status = "FormulaEvaluationError"
          /\ NamesIn(formula.ast) \subseteq DOMAIN variables \cup EngineGlobals
                => raw # Exc("NameError")

\* max(a, b) with max bound to 5: the call of 5 raises TypeError
C28_Witness ==
    /\ pc = "done"
    /\ formula = [len |-> ShortLen, ast |-> Ex_max_a_b]
    /\ variables = V_shadow
    /\ "max" \in lookups
    /\ called = {}
    /\ raw = Exc("TypeError")
    /\ outcome = Failed("Formula evaluation error")

(***************************************************************************)
(* A recalculation that fails.                                             *)
(***************************************************************************)
\* request r is answered with an error in this step
FailsNow(r) ==
    /\ req[r].pc # "done"
    /\ req'[r].pc = "done"
    /\ req'[r].response.status # 200

\* C29: a recalculation that fails, for a missing scenario or because the
\* projection raises, has deleted, added and changed no stored record: it
\* ends before anything is marked for deletion or insertion, and the step
\* that ends it leaves the table as it is; no row is marked before the
\* projection has been computed.
C29_FailureLeavesRecords ==
    [][\A r \in Requests :
          /\ FailsNow(r) =>
                /\ req[r].pc \in {"idle", "calculate"}
                /\ req[r].deleted = {} /\ req[r].added = {}
                /\ req'[r].deleted = {} /\ req'[r].added = {}
                /\ store' = store
          /\ req'[r].deleted # {} \/ req'[r].added # {} =>
                req'[r].pc \in {"add", "commit", "done"}
                /\ Len(req'[r].projections) = req'[r].scenario.projection_months
      ]_vars

\* the first request stored its rows, the scenario was then moved to a start
\* date _add_months cannot advance, and the second request failed: the rows
\* of the first are still the table
C29_Witness ==
    /\ req[1].pc = "done" /\ req[1].response.status = 200
    /\ req[2].pc = "done" /\ req[2].response.status # 200
    /\ scenario # NoScenario
    /\ store # {}
    /\ store = req[1].added

(***************************************************************************)
(* The partnership endpoints (api/v1/endpoints/partnerships.py) and the    *)
(* shared-scenario listing that reads the partnerships table.  Requests    *)
(* run one at a time; response is the last request and its answer.         *)
(***************************************************************************)
\* the registered users, by id; the e-mail address of user u is EmailOf(u)
MaxUsers == 3
Users == 1..MaxUsers
EmailOf(u) == <<"mail", u>>
\* the addresses an invitation may name: one of them belongs to nobody
Emails == {EmailOf(u) : u \in Users} \cup {<<"mail", 0>>}
\* the keys uuid4 may hand out: at most MaxPartnerships rows at a time
MaxPartnerships == 2
PartnershipIds == 1..MaxPartnerships

Answer(op, user, id, status) ==
    [op |-> op, user |-> user, id |-> id, status |-> status]

\* models/partnership.py lines 8-13, as invite_partner fills the row
Partnership(id, user1_id, user2_id, is_active) ==
    [id |-> id, user1_id |-> user1_id, user2_id |-> user2_id,
     is_active |-> is_active]

\* select(Partnership).where(Partnership.id == partnership_id)
PartnershipById(id) == {p \in partnerships : p.id = id}

\* partnerships.py lines 13-48: invite_partner
InvitePartner(current_user, partner_email) ==
    /\ LET partner == {u \in Users : EmailOf(u) = partner_email}
           existing == {p \in partnerships :
                           \E u \in partner :
                              \/ p.user1_id = current_user /\ p.user2_id = u
                              \/ p.user1_id = u /\ p.user2_id = current_user}
       IN IF partner = {}
          THEN /\ response' = Answer("invite", current_user, 0, 404)
               /\ UNCHANGED partnerships
          ELSE IF partner = {current_user} \/ existing # {}
          THEN /\ response' = Answer("invite", current_user, 0, 400)
               /\ UNCHANGED partnerships
          ELSE \E id \in PartnershipIds, u \in partner :
                  /\ PartnershipById(id) = {}
                  /\ partnerships' = partnerships \cup
                                        {Partnership(id, current_user, u, FALSE)}
                  /\ response' = Answer("invite", current_user, id, 200)
    /\ UNCHANGED components
    /\ UNCHANGED fvars
    /\ UNCHANGED pvars
    /\ UNCHANGED rvars

\* mutant: either user of the pair may accept
AcceptPartnership_either_user(current_user, partnership_id) ==
    /\ LET found == PartnershipById(partnership_id) IN
       IF found = {}
       THEN /\ response' = Answer("accept", current_user, partnership_id, 404)
            /\ UNCHANGED partnerships
       ELSE \E partnership \in found :
              IF current_user \notin {partnership.user1_id, partnership.user2_id}
              THEN /\ response' = Answer("accept", current_user, partnership_id, 403)
                   /\ UNCHANGED partnerships
              ELSE IF partnership.is_active
              THEN /\ response' = Answer("accept", current_user, partnership_id, 400)
                   /\ UNCHANGED partnerships
              ELSE /\ partnerships' = (partnerships \ {partnership}) \cup
                                         {[partnership EXCEPT !.is_active = TRUE]}
                   /\ response' = Answer("accept", current_user, partnership_id, 200)
    /\ UNCHANGED components
    /\ UNCHANGED fvars
    /\ UNCHANGED pvars
    /\ UNCHANGED rvars

\* partnerships.py lines 50-68: accept_partnership
AcceptPartnership(current_user, partnership_id) ==
    /\ LET found == PartnershipById(partnership_id) IN
       IF found = {}
       THEN /\ response' = Answer("accept", current_user, partnership_id, 404)
            /\ UNCHANGED partnerships
       ELSE \E partnership \in found :
              IF partnership.user2_id # current_user
              THEN /\ response' = Answer("accept", current_user, partnership_id, 403)
                   /\ UNCHANGED partnerships
              ELSE IF partnership.is_active
              THEN /\ response' = Answer("accept", current_user, partnership_id, 400)
                   /\ UNCHANGED partnerships
              ELSE /\ partnerships' = (partnerships \ {partnership}) \cup
                                         {[partnership EXCEPT !.is_active = TRUE]}
                   /\ response' = Answer("accept", current_user, partnership_id, 200)
    /\ UNCHANGED components
    /\ UNCHANGED fvars
    /\ UNCHANGED pvars
    /\ UNCHANGED rvars

\* partnerships.py lines 70-86: revoke_partnership
RevokePartnership(current_user, partnership_id) ==
    /\ LET found == PartnershipById(partnership_id) IN
       IF found = {}
       THEN /\ response' = Answer("revoke", current_user, partnership_id, 404)
            /\ UNCHANGED partnerships
       ELSE \E partnership \in found :
              IF current_user \notin {partnership.user1_id, partnership.user2_id}
              THEN /\ response' = Answer("revoke", current_user, partnership_id, 403)
                   /\ UNCHANGED partnerships
              ELSE /\ partnerships' = partnerships \ {partnership}
                   /\ response' = Answer("revoke", current_user, partnership_id, 200)
    /\ UNCHANGED components
    /\ UNCHANGED fvars
    /\ UNCHANGED pvars
    /\ UNCHANGED rvars

\* scenarios.py lines 353-364: the partners whose scenarios are listed
partner_ids(current_user) ==
    {IF p.user1_id = current_user THEN p.user2_id ELSE p.user1_id :
        p \in {q \in partnerships :
                  /\ q.user1_id = current_user \/ q.user2_id = current_user
                  /\ q.is_active}}

\* scenarios.py lines 346-374: get_shared_scenarios answers with the
\* scenarios of these users
GetSharedScenarios(current_user) ==
    /\ response' = [op |-> "shared", user |-> current_user, id |-> 0,
                    status |-> 200, owners |-> partner_ids(current_user)]
    /\ UNCHANGED <<components, partnerships>>
    /\ UNCHANGED fvars
    /\ UNCHANGED pvars
    /\ UNCHANGED rvars

InitPartnerships ==
    /\ FormulaIdle
    /\ ProjectionIdle
    /\ RecalcIdle
    /\ ApiIdle

NextPartnerships ==
    \/ \E u \in Users, email \in Emails : InvitePartner(u, email)
    \/ \E u \in Users, id \in PartnershipIds : AcceptPartnership(u, id)
    \/ \E u \in Users, id \in PartnershipIds : RevokePartnership(u, id)
    \/ \E u \in Users : GetSharedScenarios(u)

SpecPartnerships == InitPartnerships /\ [][NextPartnerships]_vars

\* C30: a partnership row appears inactive, through an invite of its user1;
\* a row becomes active only through an accept of its user2 that is
\* answered 200, whatever requests the inviter or a third user make; and the
\* shared listing names only users with whom the caller has an active row.
C30_ActiveOnlyByAcceptance ==
    [][/\ \A p \in partnerships' \ partnerships :
             IF p.is_active
             THEN /\ [p EXCEPT !.is_active = FALSE] \in partnerships
                  /\ response' = Answer("accept", p.user2_id, p.id, 200)
             ELSE /\ PartnershipById(p.id) = {}
                  /\ response' = Answer("invite", p.user1_id, p.id, 200)
       /\ response'.op = "shared" =>
             \A owner \in response'.owners :
                \E p \in partnerships' :
                   /\ p.is_active
                   /\ {p.user1_id, p.user2_id} = {response'.user, owner}
      ]_vars

\* user 2 accepted the invitation of user 1 after user 1 and user 3 had
\* tried to; user 1 is now shown the scenarios of user 2
C30_Witness ==
    /\ \E id \in PartnershipIds : partnerships = {Partnership(id, 1, 2, TRUE)}
    /\ response.op = "shared"
    /\ response.user = 1
    /\ response.owners = {2}

====
